---------------------------- MODULE Spec2Model ----------------------------
(***************************************************************************)
(* Model of the MiniMax Translator client (src/app.js): the translation    *)
(* fallback chain (translateText / browserTranslate) and the offline       *)
(* translation cache (loadOfflineCache / saveOfflineCache /                *)
(* clearOfflineCache), with the events that interleave with a call while   *)
(* it is suspended on a network await.                                     *)
(*                                                                         *)
(* Strings the code computes with (input text, translations, URL           *)
(* components, the text shown in the target panel) are sequences of        *)
(* one-character strings, so that trim(), encodeURIComponent(), join('')   *)
(* and template concatenation are computed and not assumed.                *)
(***************************************************************************)
EXTENDS Integers, Sequences, FiniteSets, TLC

(***************************************************************************)
(* Bounds of the model.                                                    *)
(***************************************************************************)
\* saveOfflineCache's maxEntries (500 in src/app.js:675), scaled down so
\* that overflow and eviction happen within the explored runs.
maxEntries == 2

\* Slots for translateText invocations: a slot holds one invocation from its
\* call until the next call reuses the slot.
Slots == { "c1", "c2" }

\* The slots Spec uses: one invocation at a time, interleaved with every
\* other event handler of the page.
Calls == { "c1" }

\* Texts handed to translateText by its callers.  Every caller passes a text
\* whose trim() is non-empty; setLanguagePair passes it untrimmed.
InputTexts == { <<"a">>, <<"b", " ">> }

\* Credentials the settings form may hold ("" = none configured).
ApiKeys == { <<>>, <<"k">> }

(***************************************************************************)
(* CONFIG (src/app.js:7-30)                                                *)
(***************************************************************************)
LangPairs == { "zh-en", "en-zh" }

SPEECH_LANGUAGES ==
    [ lp \in LangPairs |->
        IF lp = "zh-en" THEN [ source |-> "zh-CN", target |-> "en" ]
                        ELSE [ source |-> "en-US", target |-> "zh" ] ]

(***************************************************************************)
(* String functions of the platform, computed character by character.      *)
(***************************************************************************)
RECURSIVE TrimStart(_)
TrimStart(s) ==
    IF s = <<>> THEN <<>>
    ELSE IF Head(s) = " " THEN TrimStart(Tail(s)) ELSE s

RECURSIVE TrimEnd(_)
TrimEnd(s) ==
    IF s = <<>> THEN <<>>
    ELSE IF s[Len(s)] = " " THEN TrimEnd(SubSeq(s, 1, Len(s) - 1)) ELSE s

\* String.prototype.trim
Trim(s) == TrimEnd(TrimStart(s))

\* encodeURIComponent: letters are kept, a space becomes %20.
RECURSIVE encodeURIComponent(_)
encodeURIComponent(s) ==
    IF s = <<>> THEN <<>>
    ELSE (IF Head(s) = " " THEN <<"%", "2", "0">> ELSE <<Head(s)>>)
            \o encodeURIComponent(Tail(s))

\* String.prototype.toUpperCase on the language codes the client uses.
toUpperCase(code) ==
    CASE code = "en" -> "EN"
      [] code = "zh" -> "ZH"
      [] OTHER       -> code

\* TRUE iff needle occurs in hay as a contiguous substring.
Contains(hay, needle) ==
    \E i \in 1..(Len(hay) - Len(needle) + 1) :
        SubSeq(hay, i, i + Len(needle) - 1) = needle

(***************************************************************************)
(* state.offlineCache: a JavaScript Map, i.e. an insertion-ordered mapping. *)
(* It is a sequence of entries <<key, value>> with pairwise distinct keys,  *)
(* oldest insertion first.                                                  *)
(***************************************************************************)
EmptyMap == <<>>

MapHas(m, k) == \E i \in 1..Len(m) : m[i][1] = k

MapGet(m, k) == LET i == CHOOSE j \in 1..Len(m) : m[j][1] = k IN m[i][2]

\* Map.prototype.set: an existing key keeps its position and gets the new
\* value; a new key is appended.
MapSet(m, k, v) ==
    IF MapHas(m, k)
    THEN [ i \in 1..Len(m) |-> IF m[i][1] = k THEN <<k, v>> ELSE m[i] ]
    ELSE Append(m, <<k, v>>)

\* The value undefined, as a Map value.
Undefined == << "undefined" >>

\* Mutant of MapFromEntries: every entry is put in front of the earlier ones.
RECURSIVE MapFromEntries_Reversed(_)
MapFromEntries_Reversed(list) ==
    IF list = <<>> THEN EmptyMap
    ELSE LET rest == MapFromEntries_Reversed(Tail(list))
             first == Head(list)
         IN  IF MapHas(rest, first[1]) THEN rest
             ELSE Append(rest, << first[1], first[2] >>)

\* new Map(iterable of arrays): element 0 of each array is the key and
\* element 1 the value, undefined when the array has no element 1.
RECURSIVE MapFromEntries(_)
MapFromEntries(list) ==
    IF list = <<>> THEN EmptyMap
    ELSE LET init == MapFromEntries(SubSeq(list, 1, Len(list) - 1))
             last == list[Len(list)]
         IN  MapSet(init, last[1], IF Len(last) > 1 THEN last[2] ELSE Undefined)

\* Array.from(map.entries())
MapEntries(m) == m

\* Mutant of SliceLast: slice(0, n), the first n elements.
SliceLast_First(arr, n) ==
    IF Len(arr) <= n THEN arr ELSE SubSeq(arr, 1, n)

\* Array.prototype.slice(-n)
SliceLast(arr, n) ==
    IF Len(arr) <= n THEN arr ELSE SubSeq(arr, Len(arr) - n + 1, Len(arr))

(***************************************************************************)
(* The localStorage item CONFIG.STORAGE_KEYS.OFFLINE_CACHE.                 *)
(*   kind "missing" : getItem returns null                                  *)
(*   kind "array"   : a JSON text of an array of [key, value] pairs         *)
(*   kind "invalid" : a string that is not JSON (JSON.parse throws)         *)
(*   kind "null"    : the JSON text null (new Map(null) is an empty Map)    *)
(*   kind "number"  : the JSON text of a number (new Map(n) throws)         *)
(*   kind "numbers" : the JSON text of an array of numbers (new Map throws: *)
(*                    an element is no entry object)                        *)
(* An "array" item the program wrote holds pairs; one it did not write may  *)
(* hold arrays of any length.                                               *)
(***************************************************************************)
MissingItem == [ kind |-> "missing", items |-> <<>> ]

\* JSON.stringify of an array of [key, value] pairs
JSONstringify(entries) == [ kind |-> "array", items |-> entries ]

\* loadOfflineCache: the Map held after the call, given the Map held before
\* it and the stored item.
loadOfflineCache(cache, item) ==
    CASE item.kind = "missing" -> cache
      [] item.kind = "invalid" -> cache
      [] item.kind = "number"  -> cache
      [] item.kind = "numbers" -> cache
      [] item.kind = "null"    -> EmptyMap
      [] OTHER                 -> MapFromEntries(item.items)

\* Mutant of saveOfflineCache: the size limit is not applied.
saveOfflineCache_NoLimit(cache, item, setItemOk) ==
    [ cache |-> cache,
      item  |-> IF setItemOk THEN JSONstringify(MapEntries(cache)) ELSE item ]

\* Mutant of saveOfflineCache: the size limit is applied to the stored copy
\* only; the Map in memory keeps every entry.
saveOfflineCache_TrimsStoredOnly(cache, item, setItemOk) ==
    [ cache |-> cache,
      item  |-> IF setItemOk
                THEN JSONstringify(SliceLast(MapEntries(cache), maxEntries))
                ELSE item ]

\* saveOfflineCache: the Map and the stored item after the call.  setItem
\* may throw (quota exceeded); the exception is caught and logged, and the
\* stored item then keeps its old value.
saveOfflineCache(cache, item, setItemOk) ==
    LET trimmed == IF Len(cache) > maxEntries
                   THEN MapFromEntries(SliceLast(MapEntries(cache), maxEntries))
                   ELSE cache
    IN  [ cache |-> trimmed,
          item  |-> IF setItemOk THEN JSONstringify(MapEntries(trimmed))
                                 ELSE item ]

(***************************************************************************)
(* Texts written into the target panel (elements.targetText).              *)
(***************************************************************************)
\* app.js:394
OfflineMessage == << "Offline - translation unavailable" >>

\* app.js:402-406
ConfigPrompt == << "Add your MiniMax API key in settings to enable translation." >>

\* Mutant of TerminalError: the message without the original text.
TerminalError_NoText(t) ==
    << "Translation service unavailable. Check your API key.",
       "Original text: " >>

\* app.js:512-516: the template ends with the text handed to translateText
TerminalError(t) ==
    << "Translation service unavailable. Check your API key.",
       "Original text: " >> \o t

(***************************************************************************)
(* Provider responses.                                                     *)
(***************************************************************************)
\* Decoded bodies of a primary-provider response.  json = FALSE: the body is
\* not JSON (response.json() rejects).  hasBase: the body has a base_resp
\* object, status_code is its status code.  text: the text field, <<>> when
\* it is absent or empty.
PrimaryBodies ==
    { [ json |-> FALSE, hasBase |-> FALSE, status_code |-> 0, text |-> <<>> ] }
    \cup { [ json |-> TRUE, hasBase |-> TRUE, status_code |-> sc, text |-> t ] :
             sc \in {0, 1}, t \in { <<>>, <<"x">> } }
    \cup { [ json |-> TRUE, hasBase |-> FALSE, status_code |-> 0, text |-> t ] :
             t \in { <<>>, <<"x">> } }

\* A segment of the secondary provider's first array: null, or a tuple whose
\* first element is first (<<>>: absent or empty).
NullSegment == [ isNull |-> TRUE, first |-> <<>> ]

Segment(s) == [ isNull |-> FALSE, first |-> s ]

\* Decoded bodies of a secondary-provider response.  shape "notJson": json()
\* rejects; "null": the JSON value null; "noFirst": data[0] is missing or
\* falsy; "firstNotArray": data[0] is truthy and no array; "array": data[0]
\* is the array segs.
SecondaryBodies ==
    { [ shape |-> sh, segs |-> <<>> ] :
        sh \in { "notJson", "null", "noFirst", "firstNotArray" } }
    \cup { [ shape |-> "array", segs |-> sg ] :
             sg \in { <<>>,
                      << Segment(<<>>) >>,
                      << NullSegment >>,
                      << Segment(<<"x">>) >>,
                      << Segment(<<"x">>), Segment(<<"y">>) >>,
                      << NullSegment, Segment(<<"x">>), Segment(<<>>), Segment(<<"y">>) >> } }

\* Mutant of DecodePrimary: the nested status code is not looked at.
DecodePrimary_IgnoreStatus(data) ==
    IF ~data.json THEN [ ok |-> FALSE, translation |-> <<>> ]
    ELSE [ ok |-> data.text # <<>>, translation |-> data.text ]

\* app.js:437-461: the decision on a decoded primary body.  ok = FALSE stands
\* for every throw (error envelope, unexpected format, empty translation).
DecodePrimary(data) ==
    IF ~data.json THEN [ ok |-> FALSE, translation |-> <<>> ]
    ELSE IF data.hasBase /\ data.status_code = 0
         THEN [ ok |-> data.text # <<>>, translation |-> data.text ]
    ELSE IF data.hasBase
         THEN [ ok |-> FALSE, translation |-> <<>> ]
    ELSE IF data.text # <<>>
         THEN [ ok |-> TRUE, translation |-> data.text ]
    ELSE [ ok |-> FALSE, translation |-> <<>> ]

\* Mutant of JoinFirsts: the segments are joined in reverse order.
RECURSIVE JoinFirsts_Reversed(_)
JoinFirsts_Reversed(segs) ==
    IF segs = <<>> THEN <<>>
    ELSE JoinFirsts_Reversed(Tail(segs))
         \o (IF ~Head(segs).isNull /\ Head(segs).first # <<>>
             THEN Head(segs).first ELSE <<>>)

\* app.js:491-494: data[0].filter(item => item && item[0]).map(item => item[0]).join('')
RECURSIVE JoinFirsts(_)
JoinFirsts(segs) ==
    IF segs = <<>> THEN <<>>
    ELSE (IF ~Head(segs).isNull /\ Head(segs).first # <<>>
          THEN Head(segs).first ELSE <<>>)
         \o JoinFirsts(Tail(segs))

\* app.js:488-507: the decision on a decoded secondary body.
DecodeSecondary(data) ==
    IF data.shape # "array" THEN [ ok |-> FALSE, translation |-> <<>> ]
    ELSE LET translation == JoinFirsts(data.segs)
         IN  [ ok |-> translation # <<>>, translation |-> translation ]

(***************************************************************************)
(* Requests handed to fetch().                                             *)
(***************************************************************************)
\* app.js:414-425
PrimaryRequest(key, sl, tl, t) ==
    [ provider |-> "primary", method |-> "POST", authorization |-> key,
      source |-> toUpperCase(sl), target |-> toUpperCase(tl), text |-> t ]

\* app.js:478-482
SecondaryRequest(sl, tl, t) ==
    [ provider |-> "secondary", method |-> "GET", authorization |-> <<>>,
      source |-> sl, target |-> tl, text |-> encodeURIComponent(t) ]

\* app.js:384, 500
CacheKey(sl, tl, t) == << sl, tl, t >>

(***************************************************************************)
(* State.                                                                  *)
(***************************************************************************)
VARIABLES
    currentLangPair,  \* state.currentLangPair
    apiKey,           \* state.apiKey
    isOnline,         \* state.isOnline
    offlineCache,     \* state.offlineCache
    storedCache,      \* localStorage item 'offline_cache'
    targetText,       \* content of elements.targetText
    loading,          \* elements.targetText has the class 'loading'
    pc,               \* per invocation: where translateText stands
    text,             \* per invocation: the parameter text
    sourceLang,       \* per invocation: the local sourceLang
    targetLang,       \* per invocation: the local targetLang
    sent,             \* per invocation: the requests it handed to fetch()
    lastConnectivityEvent  \* history: the last 'online'/'offline' event
                           \* delivered to this page, "none" before the first

pageVars == << currentLangPair, apiKey, isOnline, offlineCache, storedCache,
               targetText, loading, pc, text, sourceLang, targetLang, sent,
               lastConnectivityEvent >>

(***************************************************************************)
(* The service worker of sw.js and the CacheStorage of its origin.         *)
(***************************************************************************)
\* sw.js:6
CACHE_NAME == "minimax-translator-v1"

\* The cache a previous version of the worker left behind (it differs from
\* CACHE_NAME, sw.js:62-64).
OLD_CACHE_NAME == "minimax-translator-v0"

\* Cache names in the order caches.keys() and caches.match() visit them:
\* the order of creation.
CacheNames == << OLD_CACHE_NAME, CACHE_NAME >>

\* URLs of the requests of the model.  ROOT_URL and INDEX_URL are two keys
\* of one document: './' and './index.html' (sw.js:11-12).
ROOT_URL == "./"
INDEX_URL == "./index.html"
SCRIPT_URL == "./app.js"
GOOGLE_URL == "https://translate.googleapis.com/translate_a/single"
MINIMAX_URL == "https://api.minimax.chat/v1/text/translate"
EXTENSION_URL == "chrome-extension://id/content.js"

Urls == { ROOT_URL, INDEX_URL, SCRIPT_URL, GOOGLE_URL, MINIMAX_URL, EXTENSION_URL }

\* sw.js:10-24, the 13 assets cut to the three the requests of the model ask for
PRECACHE_ASSETS == << ROOT_URL, INDEX_URL, SCRIPT_URL >>

\* Bodies the network serves, and the body the previous version cached.
Versions == { "v1", "v2" }
OldVersionBody == "v0"

\* The cache holds no entry for the URL.
Absent == "absent"

\* No cache of that name exists: what stands for it holds no URL at all.
NoCache == [ u \in { "no cache" } |-> Absent ]

\* A cache right after caches.open() created it.
EmptyCache == [ u \in Urls |-> Absent ]

\* The cache of the previous version: its application document.
OldCache == [ u \in Urls |-> IF u \in { ROOT_URL, INDEX_URL } THEN OldVersionBody ELSE Absent ]

NoRequest == [ method |-> "", protocol |-> <<>>, hostname |-> <<>>, url |-> "", mode |-> "" ]

\* What the fetch event was answered with: kind "none" (nothing yet),
\* "passthrough" (respondWith was not called), "response", "undefined"
\* (respondWith got a promise of undefined) or "error" (a rejected promise).
NoResult == [ kind |-> "none", ok |-> FALSE, body |-> "", from |-> "" ]

VARIABLES
    swState,             \* "parsed", "installing", "installed", "activated"
    skipWaitingFlag,     \* self.skipWaiting() was called
    precache,            \* cache.addAll of install: "none", "pending",
                         \* "detached" (pending on a cache deleted meanwhile),
                         \* "ok", "failed"
    oldVersion,          \* history: a previous version was installed before
    oldControlsClients,  \* the previous version's worker still controls a page
    cacheStorage,        \* cache name -> NoCache or (URL -> body or Absent)
    request,             \* the request of the latest fetch event
    strategy,            \* what the fetch listener called for it
    fpc,                 \* "idle", "awaitFetch" (suspended at fetch()), "done"
    result,              \* what the latest fetch event was answered with
    revalidating,        \* URLs with a fetchAndCache() in flight
    lastSyncTag,         \* history: the tag of the latest sync event, "none"
                         \* before the first
    syncRequests,        \* the requests syncTranslations handed to fetch()
    notices              \* the messages syncTranslations posted to the clients

syncVars == << lastSyncTag, syncRequests, notices >>

swVars == << swState, skipWaitingFlag, precache, oldVersion, oldControlsClients,
             cacheStorage, request, strategy, fpc, result, revalidating, syncVars >>

vars == << pageVars, swVars >>

\* The worker script was fetched and parsed, no event was dispatched yet.
\* old: a previous version is installed, active, and has left its cache.
SwParsed(old) ==
    /\ swState = "parsed"
    /\ skipWaitingFlag = FALSE
    /\ precache = "none"
    /\ oldVersion = old
    /\ oldControlsClients = old
    /\ cacheStorage = [ n \in { OLD_CACHE_NAME, CACHE_NAME } |->
                          IF n = OLD_CACHE_NAME /\ old THEN OldCache ELSE NoCache ]
    /\ request = NoRequest
    /\ strategy = "none"
    /\ fpc = "idle"
    /\ result = NoResult
    /\ revalidating = {}
    /\ lastSyncTag = "none"
    /\ syncRequests = <<>>
    /\ notices = <<>>

appVars == << currentLangPair, apiKey, isOnline, lastConnectivityEvent >>
callVars == << pc, text, sourceLang, targetLang, sent >>

\* Positions of an invocation.  "idle": the slot holds no invocation.  The
\* await* positions are the suspension points of translateText and
\* browserTranslate; the others are the places where the invocation ended.
Suspended == { "awaitPrimary", "awaitPrimaryText", "awaitPrimaryJson",
               "awaitSecondary", "awaitSecondaryJson" }

Ended == { "cached", "offline", "noKey", "primaryOk", "secondaryOk", "error" }

\* Items the program itself can have left in localStorage (saveOfflineCache
\* writes at most maxEntries entries), and items it cannot read back.
SampleEntries ==
    << << CacheKey("en", "zh", <<"a">>), <<"x">> >>,
       << CacheKey("zh", "en", <<"a">>), <<"x", "y">> >>,
       << CacheKey("en", "zh", <<"b", " ">>), <<"x">> >>,
       << CacheKey("zh", "en", <<"b", " ">>), <<"x">> >> >>

InitialItems ==
    { MissingItem,
      [ kind |-> "invalid", items |-> <<>> ],
      [ kind |-> "null", items |-> <<>> ],
      [ kind |-> "number", items |-> <<>> ] }
    \cup { JSONstringify(SubSeq(SampleEntries, 1, n)) :
             n \in { 1, IF maxEntries < Len(SampleEntries) THEN maxEntries
                        ELSE Len(SampleEntries) } }

\* init() (app.js:73-84): loadSettings, loadOfflineCache on the fresh Map,
\* navigator.onLine.
Init ==
    /\ currentLangPair \in LangPairs
    /\ apiKey \in ApiKeys
    /\ isOnline \in BOOLEAN
    /\ storedCache \in InitialItems
    /\ offlineCache = loadOfflineCache(EmptyMap, storedCache)
    /\ targetText = <<>>
    /\ loading = FALSE
    /\ pc = [ c \in Slots |-> "idle" ]
    /\ text = [ c \in Slots |-> <<>> ]
    /\ sourceLang = [ c \in Slots |-> "" ]
    /\ targetLang = [ c \in Slots |-> "" ]
    /\ sent = [ c \in Slots |-> <<>> ]
    /\ lastConnectivityEvent = "none"
    /\ SwParsed(FALSE)

(***************************************************************************)
(* translateText (app.js:377-470) and browserTranslate (app.js:476-518).   *)
(***************************************************************************)
\* app.js:380
SourceLangOf(lp) == SPEECH_LANGUAGES[lp].target

\* app.js:381
TargetLangOf(lp) == IF SPEECH_LANGUAGES[lp].source = "zh-CN" THEN "zh" ELSE "en"

\* Mutant of EarlyExit: the connectivity check comes before the cache lookup.
EarlyExit_OfflineFirst(hit, online, key) ==
    IF ~online THEN "offline"
    ELSE IF hit THEN "cached"
    ELSE IF key = <<>> THEN "noKey"
    ELSE "awaitPrimary"

\* Mutant of EarlyExit: the credential check comes before the connectivity
\* check.
EarlyExit_KeyBeforeOffline(hit, online, key) ==
    IF hit THEN "cached"
    ELSE IF key = <<>> THEN "noKey"
    ELSE IF ~online THEN "offline"
    ELSE "awaitPrimary"

\* Mutant of EarlyExit: the credential check is missing.
EarlyExit_NoKeyCheck(hit, online, key) ==
    IF hit THEN "cached"
    ELSE IF ~online THEN "offline"
    ELSE "awaitPrimary"

\* app.js:385-408: the checks before the first network call, in the code's
\* order.  hit: the cache has the key; online: state.isOnline; key:
\* state.apiKey.  The result is the position the invocation moves to.
EarlyExit(hit, online, key) ==
    IF hit THEN "cached"
    ELSE IF ~online THEN "offline"
    ELSE IF key = <<>> THEN "noKey"
    ELSE "awaitPrimary"

\* Mutant of EndAt: the invocation does not leave its position.
EndAt_Stays(c, p) == pc' = pc

\* The invocation in slot c ends at position p.
EndAt(c, p) == pc' = [ pc EXCEPT ![c] = p ]

\* Mutant of CallSecondary: the primary call is repeated instead of falling
\* back to the secondary provider.
CallSecondary_RetryPrimary(c) ==
    /\ sent' = [ sent EXCEPT
                   ![c] = Append(@, PrimaryRequest(apiKey, sourceLang[c], targetLang[c], text[c])) ]
    /\ pc' = [ pc EXCEPT ![c] = "awaitPrimary" ]

\* app.js:476-482: browserTranslate runs up to its await fetch(url).
CallSecondary(c) ==
    /\ sent' = [ sent EXCEPT
                   ![c] = Append(@, SecondaryRequest(sourceLang[c], targetLang[c], text[c])) ]
    /\ pc' = [ pc EXCEPT ![c] = "awaitSecondary" ]

\* Mutant of StoreTranslation: the translation is shown but not cached.
StoreTranslation_NoCache(c, translation, setItemOk) ==
    /\ targetText' = translation
    /\ UNCHANGED << offlineCache, storedCache >>

\* Mutant of StoreTranslation: the cache is replaced by the one entry of
\* this invocation.
StoreTranslation_Overwrites(c, translation, setItemOk) ==
    LET saved == saveOfflineCache(
                     MapSet(EmptyMap,
                            CacheKey(sourceLang[c], targetLang[c], text[c]),
                            translation),
                     storedCache, setItemOk)
    IN  /\ targetText' = translation
        /\ offlineCache' = saved.cache
        /\ storedCache' = saved.item

\* Mutant of StoreTranslation: the translation of an invocation is not shown
\* once a newer invocation (slot c2) has been started.
StoreTranslation_NewestOnly(c, translation, setItemOk) ==
    LET saved == saveOfflineCache(
                     MapSet(offlineCache,
                            CacheKey(sourceLang[c], targetLang[c], text[c]),
                            translation),
                     storedCache, setItemOk)
    IN  /\ targetText' = IF c = "c1" /\ pc["c2"] # "idle" THEN targetText ELSE translation
        /\ offlineCache' = saved.cache
        /\ storedCache' = saved.item

\* Mutant of StoreTranslation: the entry is written under the key of the
\* pair selected when the response arrives, not of the pair of the call.
StoreTranslation_CurrentPairKey(c, translation, setItemOk) ==
    LET saved == saveOfflineCache(
                     MapSet(offlineCache,
                            CacheKey(SPEECH_LANGUAGES[currentLangPair].target,
                                     IF SPEECH_LANGUAGES[currentLangPair].source = "zh-CN"
                                     THEN "zh" ELSE "en",
                                     text[c]),
                            translation),
                     storedCache, setItemOk)
    IN  /\ targetText' = translation
        /\ offlineCache' = saved.cache
        /\ storedCache' = saved.item

\* app.js:453-458 and 496-503: show the translation, cache it, persist.
StoreTranslation(c, translation, setItemOk) ==
    LET saved == saveOfflineCache(
                     MapSet(offlineCache,
                            CacheKey(sourceLang[c], targetLang[c], text[c]),
                            translation),
                     storedCache, setItemOk)
    IN  /\ targetText' = translation
        /\ offlineCache' = saved.cache
        /\ storedCache' = saved.item

\* Mutant of ShowTerminalError: the text shown on failure is also cached as
\* if it were a translation.
ShowTerminalError_Caches(c) ==
    /\ targetText' = TerminalError(text[c])
    /\ loading' = FALSE
    /\ EndAt(c, "error")
    /\ offlineCache' = MapSet(offlineCache,
                              CacheKey(sourceLang[c], targetLang[c], text[c]),
                              text[c])
    /\ UNCHANGED << storedCache, sent >>

\* app.js:508-517 and the finally of translateText (app.js:467-469)
ShowTerminalError(c) ==
    /\ targetText' = TerminalError(text[c])
    /\ loading' = FALSE
    /\ EndAt(c, "error")
    /\ UNCHANGED << offlineCache, storedCache, sent >>

\* app.js:377-425: translateText(t) from its call to its first suspension
\* or return, with lp the value of state.currentLangPair.
TranslateText(c, t, lp) ==
    LET sl  == SourceLangOf(lp)
        tl  == TargetLangOf(lp)
        cacheKey == CacheKey(sl, tl, t)
    IN  /\ pc[c] \notin Suspended
        /\ Trim(t) # <<>>
        /\ text' = [ text EXCEPT ![c] = t ]
        /\ sourceLang' = [ sourceLang EXCEPT ![c] = sl ]
        /\ targetLang' = [ targetLang EXCEPT ![c] = tl ]
        /\ UNCHANGED << offlineCache, storedCache >>
        /\ LET exit == EarlyExit(MapHas(offlineCache, cacheKey), isOnline, apiKey)
           IN  /\ pc' = [ pc EXCEPT ![c] = exit ]
               /\ sent' = [ sent EXCEPT
                     ![c] = IF exit = "awaitPrimary"
                            THEN << PrimaryRequest(apiKey, sl, tl, t) >>
                            ELSE <<>> ]
               /\ targetText' =
                     CASE exit = "cached"  -> MapGet(offlineCache, cacheKey)
                       [] exit = "offline" -> OfflineMessage
                       [] exit = "noKey"   -> ConfigPrompt
                       [] OTHER            -> targetText
               /\ loading' = IF exit = "awaitPrimary" THEN TRUE ELSE loading

\* handleTextInput's timer, translateCurrentText, recognition.onresult
\* (app.js:186, 369, 596): translateText(t) under the selected pair.
Translate(c, t) ==
    /\ TranslateText(c, t, currentLangPair)
    /\ UNCHANGED appVars
    /\ UNCHANGED swVars

\* app.js:414: fetch() rejects (transport failure); the catch at 463-466
\* calls browserTranslate.
PrimaryRejected(c) ==
    /\ pc[c] = "awaitPrimary"
    /\ CallSecondary(c)
    /\ UNCHANGED << appVars, offlineCache, storedCache, targetText, loading,
                    text, sourceLang, targetLang >>
    /\ UNCHANGED swVars

\* app.js:414-433: fetch() resolves with a response whose ok flag is ok.
PrimaryResponded(c, ok) ==
    /\ pc[c] = "awaitPrimary"
    /\ pc' = [ pc EXCEPT ![c] = IF ok THEN "awaitPrimaryJson" ELSE "awaitPrimaryText" ]
    /\ UNCHANGED << appVars, offlineCache, storedCache, targetText, loading,
                    text, sourceLang, targetLang, sent >>
    /\ UNCHANGED swVars

\* app.js:428-430: response.text() settles, the API error is thrown and
\* caught at 463-466.
PrimaryErrorRead(c) ==
    /\ pc[c] = "awaitPrimaryText"
    /\ CallSecondary(c)
    /\ UNCHANGED << appVars, offlineCache, storedCache, targetText, loading,
                    text, sourceLang, targetLang >>
    /\ UNCHANGED swVars

\* app.js:433-469: response.json() settles with data.
PrimaryBodyRead(c, data, setItemOk) ==
    /\ pc[c] = "awaitPrimaryJson"
    /\ LET r == DecodePrimary(data)
       IN  IF r.ok
           THEN /\ StoreTranslation(c, r.translation, setItemOk)
                /\ loading' = FALSE
                /\ EndAt(c, "primaryOk")
                /\ UNCHANGED sent
           ELSE /\ CallSecondary(c)
                /\ UNCHANGED << offlineCache, storedCache, targetText, loading >>
    /\ UNCHANGED << appVars, text, sourceLang, targetLang >>
    /\ UNCHANGED swVars

\* app.js:482, 508-517: the secondary fetch() rejects.
SecondaryRejected(c) ==
    /\ pc[c] = "awaitSecondary"
    /\ ShowTerminalError(c)
    /\ UNCHANGED << appVars, text, sourceLang, targetLang >>
    /\ UNCHANGED swVars

\* app.js:482-488: the secondary fetch() resolves.
SecondaryResponded(c, ok) ==
    /\ pc[c] = "awaitSecondary"
    /\ IF ok
       THEN /\ pc' = [ pc EXCEPT ![c] = "awaitSecondaryJson" ]
            /\ UNCHANGED << offlineCache, storedCache, targetText, loading, sent >>
       ELSE ShowTerminalError(c)
    /\ UNCHANGED << appVars, text, sourceLang, targetLang >>
    /\ UNCHANGED swVars

\* app.js:488-517: response.json() of the secondary response settles.
SecondaryBodyRead(c, data, setItemOk) ==
    /\ pc[c] = "awaitSecondaryJson"
    /\ LET r == DecodeSecondary(data)
       IN  IF r.ok
           THEN /\ StoreTranslation(c, r.translation, setItemOk)
                /\ loading' = FALSE
                /\ EndAt(c, "secondaryOk")
                /\ UNCHANGED sent
           ELSE ShowTerminalError(c)
    /\ UNCHANGED << appVars, text, sourceLang, targetLang >>
    /\ UNCHANGED swVars

(***************************************************************************)
(* Event handlers that interleave with suspended invocations.              *)
(***************************************************************************)
\* app.js:284-287
OnlineEvent ==
    /\ isOnline' = TRUE
    /\ lastConnectivityEvent' = "online"
    /\ UNCHANGED << currentLangPair, apiKey, offlineCache, storedCache,
                    targetText, loading, callVars >>
    /\ UNCHANGED swVars

\* app.js:289-292
OfflineEvent ==
    /\ isOnline' = FALSE
    /\ lastConnectivityEvent' = "offline"
    /\ UNCHANGED << currentLangPair, apiKey, offlineCache, storedCache,
                    targetText, loading, callVars >>
    /\ UNCHANGED swVars

\* app.js:248-251
ApiKeyChange(k) ==
    /\ apiKey' = k
    /\ UNCHANGED << currentLangPair, isOnline, lastConnectivityEvent, offlineCache, storedCache,
                    targetText, loading, callVars >>
    /\ UNCHANGED swVars

\* app.js:298-314 with an empty source panel
SetLanguagePair(lp) ==
    /\ currentLangPair' = lp
    /\ UNCHANGED << apiKey, isOnline, lastConnectivityEvent, offlineCache, storedCache,
                    targetText, loading, callVars >>
    /\ UNCHANGED swVars

\* app.js:298-314 with the text t in the source panel: re-translates
SetLanguagePairRetranslate(lp, c, t) ==
    /\ currentLangPair' = lp
    /\ TranslateText(c, t, lp)
    /\ UNCHANGED << apiKey, isOnline, lastConnectivityEvent >>
    /\ UNCHANGED swVars

\* app.js:234-237: the clear button of the source panel
ClearSource ==
    /\ targetText' = <<>>
    /\ UNCHANGED << appVars, offlineCache, storedCache, loading, callVars >>
    /\ UNCHANGED swVars

\* Mutant of clearOfflineCache: the stored item is not removed.
clearOfflineCache_MemoryOnly ==
    /\ offlineCache' = EmptyMap
    /\ UNCHANGED << appVars, storedCache, targetText, loading, callVars >>
    /\ UNCHANGED swVars

\* app.js:692-696
clearOfflineCache ==
    /\ offlineCache' = EmptyMap
    /\ storedCache' = MissingItem
    /\ UNCHANGED << appVars, targetText, loading, callVars >>
    /\ UNCHANGED swVars

\* The page is loaded again: init() runs on fresh module state (app.js:33-44,
\* 73-84); the settings come back from localStorage, and the invocations of
\* the old page are gone.
Reload ==
    /\ offlineCache' = loadOfflineCache(EmptyMap, storedCache)
    /\ targetText' = <<>>
    /\ loading' = FALSE
    /\ pc' = [ c \in Slots |-> "idle" ]
    /\ text' = [ c \in Slots |-> <<>> ]
    /\ sourceLang' = [ c \in Slots |-> "" ]
    /\ targetLang' = [ c \in Slots |-> "" ]
    /\ sent' = [ c \in Slots |-> <<>> ]
    /\ lastConnectivityEvent' = "none"
    /\ UNCHANGED << currentLangPair, apiKey, isOnline, storedCache >>
    /\ UNCHANGED swVars

Next ==
    \/ \E c \in Calls, t \in InputTexts : Translate(c, t)
    \/ \E c \in Calls : PrimaryRejected(c)
    \/ \E c \in Calls, ok \in BOOLEAN : PrimaryResponded(c, ok)
    \/ \E c \in Calls : PrimaryErrorRead(c)
    \/ \E c \in Calls, data \in PrimaryBodies : PrimaryBodyRead(c, data, TRUE)
    \/ \E c \in Calls : SecondaryRejected(c)
    \/ \E c \in Calls, ok \in BOOLEAN : SecondaryResponded(c, ok)
    \/ \E c \in Calls, data \in SecondaryBodies : SecondaryBodyRead(c, data, TRUE)
    \/ OnlineEvent
    \/ OfflineEvent
    \/ \E k \in ApiKeys : ApiKeyChange(k)
    \/ \E lp \in LangPairs : SetLanguagePair(lp)
    \/ \E lp \in LangPairs, c \in Calls, t \in InputTexts :
          SetLanguagePairRetranslate(lp, c, t)
    \/ ClearSource
    \/ clearOfflineCache
    \/ Reload

\* Spec: the page alone, its service worker not yet installed;
\* localStorage.setItem succeeds whenever saveOfflineCache calls it.
Spec == Init /\ [][Next]_vars

\* Stored items the program did not write: arrays whose elements are not
\* [key, value] pairs.
MalformedItems ==
    { [ kind |-> "numbers", items |-> <<>> ],
      [ kind |-> "array", items |-> << << CacheKey("en", "zh", <<"a">>) >> >> ] }

\* init() on a localStorage that may also hold an item of MalformedItems.
InitRestore ==
    /\ currentLangPair \in LangPairs
    /\ apiKey \in ApiKeys
    /\ isOnline \in BOOLEAN
    /\ storedCache \in InitialItems \cup MalformedItems
    /\ offlineCache = loadOfflineCache(EmptyMap, storedCache)
    /\ targetText = <<>>
    /\ loading = FALSE
    /\ pc = [ c \in Slots |-> "idle" ]
    /\ text = [ c \in Slots |-> <<>> ]
    /\ sourceLang = [ c \in Slots |-> "" ]
    /\ targetLang = [ c \in Slots |-> "" ]
    /\ sent = [ c \in Slots |-> <<>> ]
    /\ lastConnectivityEvent = "none"
    /\ SwParsed(FALSE)

\* SpecRestore: the page of Spec, started on any stored item.
SpecRestore == InitRestore /\ [][Next]_vars

(***************************************************************************)
(* Properties.                                                             *)
(***************************************************************************)
\* The cache key of the invocation in slot c.
KeyOf(c) == CacheKey(sourceLang[c], targetLang[c], text[c])

\* The key translateText(t) looks up when the selected pair is lp.
LookupKey(lp, t) == CacheKey(SourceLangOf(lp), TargetLangOf(lp), t)

\* C1: whenever translateText is called with a text whose key is in the
\* translation cache, it ends at once showing the cached value and hands no
\* request to fetch(), whatever the connectivity flag and the credential are.
C1_CacheHitNoNetwork ==
    [][ \A c \in Slots, t \in InputTexts, lp \in LangPairs :
          ( TranslateText(c, t, lp) /\ MapHas(offlineCache, LookupKey(lp, t)) )
            => /\ pc'[c] = "cached"
               /\ targetText' = MapGet(offlineCache, LookupKey(lp, t))
               /\ sent'[c] = <<>> ]_vars

\* A cache hit while offline and without a credential.
C1_Witness ==
    \E c \in Slots :
        /\ pc[c] = "cached"
        /\ ~isOnline
        /\ apiKey = <<>>
        /\ sent[c] = <<>>
        /\ MapHas(offlineCache, KeyOf(c))
        /\ targetText = MapGet(offlineCache, KeyOf(c))

\* The requests of an invocation, by its position: past a failed primary call
\* it has handed exactly two requests to fetch(), the primary request and then
\* one secondary request with the same text and language pair; before that,
\* and after a primary success, the primary request alone.
RequestsByPosition ==
    \A c \in Slots :
        /\ pc[c] \in { "awaitSecondary", "awaitSecondaryJson", "secondaryOk", "error" }
             => /\ Len(sent[c]) = 2
                /\ sent[c][1].provider = "primary"
                /\ sent[c][2].provider = "secondary"
                /\ sent[c][2].text = encodeURIComponent(text[c])
                /\ sent[c][1].text = text[c]
                /\ sent[c][2].source = sourceLang[c]
                /\ sent[c][2].target = targetLang[c]
                /\ sent[c][1].source = toUpperCase(sent[c][2].source)
                /\ sent[c][1].target = toUpperCase(sent[c][2].target)
        /\ pc[c] \in { "awaitPrimary", "awaitPrimaryText", "awaitPrimaryJson", "primaryOk" }
             => /\ Len(sent[c]) = 1
                /\ sent[c][1].provider = "primary"

PrimaryBodyIsSuccess(data) ==
    /\ data.json
    /\ (data.hasBase => data.status_code = 0)
    /\ data.text # <<>>

\* C3: a primary response counts as success only if its HTTP status is
\* success, its nested status code (when present) is zero and its text is
\* non-empty.  Then the text is shown and cached; in every other case the
\* invocation goes on to the secondary call and the target panel, the cache
\* and the stored cache stay as they were.
C3_PrimarySuccessCriteria ==
    [][ \A c \in Slots :
          /\ \A data \in PrimaryBodies :
               PrimaryBodyRead(c, data, TRUE)
                 => IF PrimaryBodyIsSuccess(data)
                    THEN /\ pc'[c] = "primaryOk"
                         /\ targetText' = data.text
                         /\ MapHas(offlineCache', KeyOf(c))
                         /\ MapGet(offlineCache', KeyOf(c)) = data.text
                    ELSE /\ pc'[c] = "awaitSecondary"
                         /\ UNCHANGED << targetText, offlineCache, storedCache >>
          /\ ( pc[c] = "awaitPrimaryText" /\ pc'[c] # pc[c] /\ pc'[c] # "idle" )
                 => /\ pc'[c] = "awaitSecondary"
                    /\ UNCHANGED << targetText, offlineCache, storedCache >>
          /\ ( pc[c] = "awaitPrimary" /\ pc'[c] # pc[c] /\ pc'[c] # "idle" )
                 => /\ pc'[c] \in { "awaitPrimaryText", "awaitPrimaryJson", "awaitSecondary" }
                    /\ UNCHANGED << targetText, offlineCache, storedCache >>
          /\ ( pc'[c] = "primaryOk" /\ pc[c] # "primaryOk" )
                 => pc[c] = "awaitPrimaryJson" ]_vars

\* The primary call failed on its body (status was success) and nothing was
\* cached for the key.
C3_Witness ==
    \E c \in Slots :
        /\ pc[c] = "awaitSecondary"
        /\ ~MapHas(offlineCache, KeyOf(c))
        /\ targetText = <<>>
        /\ Len(sent[c]) = 2

\* C4: the step by which an invocation ends in primary or secondary success
\* leaves the shown translation in the cache under the invocation's key, and
\* adds or changes no other entry.
C4_SuccessCachedOnce ==
    [][ \A c \in Slots :
          ( pc[c] \in Suspended /\ pc'[c] \in { "primaryOk", "secondaryOk" } )
            => /\ MapHas(offlineCache', KeyOf(c))
               /\ MapGet(offlineCache', KeyOf(c)) = targetText'
               /\ \A i \in 1..Len(offlineCache') :
                    offlineCache'[i][1] # KeyOf(c)
                      => \E j \in 1..Len(offlineCache) : offlineCache[j] = offlineCache'[i] ]_vars

\* A secondary success is in the cache and in the stored cache.
C4_Witness ==
    \E c \in Slots :
        /\ pc[c] = "secondaryOk"
        /\ MapHas(offlineCache, KeyOf(c))
        /\ MapGet(offlineCache, KeyOf(c)) = <<"x", "y">>
        /\ targetText = <<"x", "y">>
        /\ storedCache = JSONstringify(offlineCache)

\* C5: no step of an invocation other than the one that ends it in success
\* writes the cache or the stored cache: the offline short-circuit, the
\* missing-credential short-circuit and every step towards the terminal error
\* leave both unchanged.
C5_FailurePathsWriteNothing ==
    [][ \A c \in Slots :
          ( /\ pc'[c] \in Suspended \cup { "offline", "noKey", "error" }
            /\ \/ pc'[c] # pc[c]
               \/ \E t \in InputTexts, lp \in LangPairs : TranslateText(c, t, lp) )
            => UNCHANGED << offlineCache, storedCache >> ]_vars

\* Both providers failed while the cache holds entries.
C5_Witness ==
    \E c \in Slots :
        /\ pc[c] = "error"
        /\ offlineCache # EmptyMap
        /\ storedCache = JSONstringify(offlineCache)
        /\ ~MapHas(offlineCache, KeyOf(c))

\* C6: every failure of the secondary call (rejected fetch, non-success
\* status, undecodable or empty body) ends the invocation in the terminal
\* error, and the text then shown contains the text the invocation was
\* called with.
C6_TerminalErrorCarriesText ==
    [][ \A c \in Slots :
          /\ ( pc[c] \in { "awaitSecondary", "awaitSecondaryJson" } /\ pc'[c] = "error" )
               => /\ text'[c] = text[c]
                  /\ Contains(targetText', text[c])
          /\ ( SecondaryRejected(c) \/ SecondaryResponded(c, FALSE) )
               => pc'[c] = "error"
          /\ \A data \in SecondaryBodies :
               ( SecondaryBodyRead(c, data, TRUE) /\ pc'[c] # "secondaryOk" )
                 => pc'[c] = "error" ]_vars

\* The terminal error for the text "b " is shown.
C6_Witness ==
    \E c \in Slots :
        /\ pc[c] = "error"
        /\ text[c] = <<"b", " ">>
        /\ Len(sent[c]) = 2
        /\ Contains(targetText, <<"b", " ">>)

\* The offline short-circuit of C7: whenever translateText is called with a
\* text whose key is not cached while the connectivity flag is false, it ends
\* at once showing the offline message and hands no request to fetch(),
\* whether or not a credential is configured.
OfflineShortCircuit ==
    \A c \in Slots, t \in InputTexts, lp \in LangPairs :
        ( /\ TranslateText(c, t, lp)
          /\ ~MapHas(offlineCache, LookupKey(lp, t))
          /\ ~isOnline )
          => /\ pc'[c] = "offline"
             /\ targetText' = OfflineMessage
             /\ sent'[c] = <<>>

\* C7 as stated: the offline short-circuit, and the connectivity flag is
\* false exactly when the last connectivity event was 'offline'.
C7_Original ==
    /\ [][OfflineShortCircuit]_vars
    /\ [](~isOnline <=> lastConnectivityEvent = "offline")

\* C7 amended: the offline short-circuit; the connectivity flag is false after
\* an 'offline' event and true after an 'online' event, only these events
\* change it, and before the first of them it has the value navigator.onLine
\* had when the page loaded, which may be false.
C7_OfflineShortCircuit ==
    /\ [][OfflineShortCircuit]_vars
    /\ [](lastConnectivityEvent = "offline" => ~isOnline)
    /\ [](lastConnectivityEvent = "online" => isOnline)
    /\ [][ /\ isOnline' # isOnline
               => lastConnectivityEvent' = (IF isOnline' THEN "online" ELSE "offline")
           /\ lastConnectivityEvent' # lastConnectivityEvent
               => \/ lastConnectivityEvent' = "none"
                  \/ isOnline' = (lastConnectivityEvent' = "online") ]_vars

\* The offline short-circuit was taken with a credential configured, after an
\* 'offline' event.
C7_Witness ==
    \E c \in Slots :
        /\ pc[c] = "offline"
        /\ targetText = OfflineMessage
        /\ apiKey # <<>>
        /\ ~isOnline
        /\ lastConnectivityEvent = "offline"
        /\ sent[c] = <<>>

\* C8: whenever translateText is called with a text whose key is not cached
\* while the client is online and no credential is configured, it ends at once
\* showing the configuration prompt and hands no request to fetch(), neither
\* for the primary nor for the secondary provider.
C8_NoCredentialShortCircuit ==
    [][ \A c \in Slots, t \in InputTexts, lp \in LangPairs :
          ( /\ TranslateText(c, t, lp)
            /\ ~MapHas(offlineCache, LookupKey(lp, t))
            /\ isOnline
            /\ apiKey = <<>> )
            => /\ pc'[c] = "noKey"
               /\ targetText' = ConfigPrompt
               /\ sent'[c] = <<>> ]_vars

\* The configuration prompt is shown for an uncached key while online.
C8_Witness ==
    \E c \in Slots :
        /\ pc[c] = "noKey"
        /\ targetText = ConfigPrompt
        /\ isOnline
        /\ apiKey = <<>>
        /\ ~MapHas(offlineCache, KeyOf(c))
        /\ sent[c] = <<>>

\* The first elements of the segments, in order; a null segment has none.
FirstElements(segs) ==
    [ i \in 1..Len(segs) |-> IF segs[i].isNull THEN <<>> ELSE segs[i].first ]

\* The concatenation of a sequence of strings, built from its last element.
RECURSIVE Concatenation(_)
Concatenation(strs) ==
    IF strs = <<>> THEN <<>>
    ELSE Concatenation(SubSeq(strs, 1, Len(strs) - 1)) \o strs[Len(strs)]

\* C9: when the body of a secondary response with success status has been
\* read, the translation shown and cached is the concatenation, in order, of
\* the first elements of the segments of the body's first array; if the body
\* has no first array, or the concatenation is empty, the invocation ends in
\* the terminal error and writes neither the cache nor the stored cache.
C9_SecondaryConcatenation ==
    [][ \A c \in Slots, data \in SecondaryBodies :
          SecondaryBodyRead(c, data, TRUE)
            => LET expected == Concatenation(FirstElements(data.segs))
               IN  IF data.shape = "array" /\ expected # <<>>
                   THEN /\ pc'[c] = "secondaryOk"
                        /\ targetText' = expected
                        /\ MapHas(offlineCache', KeyOf(c))
                        /\ MapGet(offlineCache', KeyOf(c)) = expected
                   ELSE /\ pc'[c] = "error"
                        /\ UNCHANGED << offlineCache, storedCache >> ]_vars

\* A two-segment secondary translation was shown and cached.
C9_Witness ==
    \E c \in Slots :
        /\ pc[c] = "secondaryOk"
        /\ targetText = <<"x", "y">>
        /\ MapHas(offlineCache, KeyOf(c))
        /\ MapGet(offlineCache, KeyOf(c)) = <<"x", "y">>

\* C10: the translation cache never holds more than maxEntries entries.
C10_CacheWithinCapacity == Len(offlineCache) <= maxEntries

\* A translation was inserted into a full cache: the cache is full, its
\* newest entry is the one just written, and the oldest restored entry is
\* gone while the next one is now the oldest.
C10_Witness ==
    \E c \in Slots :
        /\ pc[c] \in { "primaryOk", "secondaryOk" }
        /\ Len(offlineCache) = maxEntries
        /\ offlineCache[Len(offlineCache)][1] = KeyOf(c)
        /\ offlineCache[1] = SampleEntries[2]
        /\ ~MapHas(offlineCache, SampleEntries[1][1])

\* C11: a successful translation under a key the cache does not hold is
\* appended as the newest entry; if the cache then exceeds maxEntries, the
\* oldest entry is dropped, so that inserting into a full cache leaves exactly
\* maxEntries entries: the former ones without the oldest, then the new one.
C11_EvictsOldest ==
    [][ \A c \in Slots :
          ( /\ pc[c] \in Suspended
            /\ pc'[c] \in { "primaryOk", "secondaryOk" }
            /\ ~MapHas(offlineCache, KeyOf(c)) )
            => IF Len(offlineCache) < maxEntries
               THEN offlineCache' = Append(offlineCache, << KeyOf(c), targetText' >>)
               ELSE /\ Len(offlineCache') = maxEntries
                    /\ offlineCache' =
                         Append(Tail(offlineCache), << KeyOf(c), targetText' >>) ]_vars

\* A primary success was inserted into the cache restored full: the oldest
\* restored entry is gone, the others moved up, and the stored item follows.
C11_Witness ==
    \E c \in Slots :
        /\ pc[c] = "primaryOk"
        /\ Len(offlineCache) = maxEntries
        /\ offlineCache[maxEntries] = << KeyOf(c), <<"x">> >>
        /\ \A i \in 1..(maxEntries - 1) : offlineCache[i] = SampleEntries[i + 1]
        /\ ~MapHas(offlineCache, SampleEntries[1][1])
        /\ storedCache = JSONstringify(offlineCache)

\* Translations the providers of the model can deliver.
Translations == { <<"x">>, <<"x", "y">> }

WellFormedItem(item) ==
    /\ item.kind = "array"
    /\ \A i \in 1..Len(item.items) : Len(item.items[i]) = 2

\* C13: from a stored item that is missing, unparsable or malformed, the
\* page starts with an empty translation cache.  (No invocation has run since
\* the page was loaded, and the stored item is none the page wrote.)
C13_CorruptRestoresEmpty ==
    ( /\ \A c \in Slots : pc[c] = "idle"
      /\ ~WellFormedItem(storedCache) )
      => offlineCache = EmptyMap

\* C14: clearOfflineCache leaves, in the state right after it, an empty
\* cache and no stored item, whatever both held before; loading the page
\* again then restores nothing.
C14_ClearEmptiesBoth ==
    [][ clearOfflineCache
          => /\ offlineCache' = EmptyMap
             /\ storedCache'.kind = "missing"
             /\ loadOfflineCache(EmptyMap, storedCache') = EmptyMap ]_vars

\* The cache was cleared after a translation had been cached and persisted.
C14_Witness ==
    \E c \in Slots :
        /\ pc[c] \in { "primaryOk", "secondaryOk" }
        /\ offlineCache = EmptyMap
        /\ storedCache = MissingItem

(***************************************************************************)
(* sw.js: CacheStorage operations.                                         *)
(***************************************************************************)
\* caches.open(name): creates the cache if there is none of that name.
CachesOpen(cs, name) ==
    IF cs[name] = NoCache THEN [ cs EXCEPT ![name] = EmptyCache ] ELSE cs

\* caches.open(name) followed by cache.put(url, response with that body).
CachePut(cs, name, url, body) ==
    LET opened == CachesOpen(cs, name)
    IN  [ opened EXCEPT ![name] = [ opened[name] EXCEPT ![url] = body ] ]

\* caches.open(name) followed by a cache.addAll(urls) whose fetches all
\* returned ok responses; bodies[u] is the body fetched for u.
CacheAddAll(cs, name, urls, bodies) ==
    LET opened == CachesOpen(cs, name)
    IN  [ opened EXCEPT ![name] =
            [ u \in Urls |-> IF \E i \in 1..Len(urls) : urls[i] = u
                             THEN bodies[u] ELSE opened[name][u] ] ]

\* cache.match(url) on the cache of that name: a body or Absent.
CacheMatch(cs, name, url) ==
    IF cs[name] = NoCache THEN Absent ELSE cs[name][url]

\* caches.match(request): the first cache, in creation order, with an entry.
RECURSIVE CachesMatchFrom(_, _, _)
CachesMatchFrom(cs, url, i) ==
    IF i > Len(CacheNames) THEN Absent
    ELSE IF CacheMatch(cs, CacheNames[i], url) # Absent
         THEN CacheMatch(cs, CacheNames[i], url)
         ELSE CachesMatchFrom(cs, url, i + 1)

CachesMatch(cs, url) == CachesMatchFrom(cs, url, 1)

\* caches.keys() then caches.delete() of every name outside keep.
CachesDeleteAllBut(cs, keep) ==
    [ n \in DOMAIN cs |-> IF n \in keep THEN cs[n] ELSE NoCache ]

\* The caches that exist.
CachesKeys(cs) == { n \in DOMAIN cs : cs[n] # NoCache }

(***************************************************************************)
(* Requests and network replies.                                           *)
(***************************************************************************)
\* String.prototype.startsWith
StartsWith(str, prefix) ==
    /\ Len(str) >= Len(prefix)
    /\ SubSeq(str, 1, Len(prefix)) = prefix

HTTPS == << "h", "t", "t", "p", "s", ":" >>
CHROME_EXTENSION == << "c", "h", "r", "o", "m", "e", "-", "e", "x", "t", "e", "n",
                       "s", "i", "o", "n", ":" >>

\* Host names, written as their labels and dots; includes() is Contains.
APP_HOST == << "localhost" >>
MINIMAX_HOST == << "api", ".", "minimax", ".", "chat" >>
GOOGLE_HOST == << "translate", ".", "googleapis", ".", "com" >>
EXTENSION_HOST == << "id" >>

\* The fetch event request of a request the page hands to fetch(): the
\* primary one goes to CONFIG.API_BASE_URL (app.js:414), the secondary one to
\* translate.googleapis.com (app.js:478-482), each with the method it was
\* built with.
FetchRequestOf(r) ==
    [ method |-> r.method, protocol |-> HTTPS,
      hostname |-> IF r.provider = "primary" THEN MINIMAX_HOST ELSE GOOGLE_HOST,
      url |-> IF r.provider = "primary" THEN MINIMAX_URL ELSE GOOGLE_URL,
      mode |-> "cors" ]

\* The two translation requests of translateText("a") under the pair en-zh.
PageRequests ==
    { FetchRequestOf(PrimaryRequest(<<"k">>, "zh", "en", <<"a">>)),
      FetchRequestOf(SecondaryRequest("zh", "en", <<"a">>)) }

\* The requests that reach the fetch listener: the page's navigation, its
\* script, the two translation requests of app.js, a form post to the page
\* and a script of a browser extension.
Requests ==
    PageRequests \cup
    { [ method |-> "GET", protocol |-> HTTPS, hostname |-> APP_HOST,
        url |-> ROOT_URL, mode |-> "navigate" ],
      [ method |-> "GET", protocol |-> HTTPS, hostname |-> APP_HOST,
        url |-> SCRIPT_URL, mode |-> "no-cors" ],
      [ method |-> "POST", protocol |-> HTTPS, hostname |-> APP_HOST,
        url |-> ROOT_URL, mode |-> "navigate" ],
      [ method |-> "GET", protocol |-> CHROME_EXTENSION, hostname |-> EXTENSION_HOST,
        url |-> EXTENSION_URL, mode |-> "no-cors" ] }

\* Responses fetch() resolves with: ok ones with a body, and a 404.
Replies ==
    { [ ok |-> TRUE, body |-> v ] : v \in Versions } \cup { [ ok |-> FALSE, body |-> "404" ] }

Passthrough == [ kind |-> "passthrough", ok |-> FALSE, body |-> "", from |-> "" ]
Rejected == [ kind |-> "error", ok |-> FALSE, body |-> "", from |-> "" ]
UndefinedResponse == [ kind |-> "undefined", ok |-> FALSE, body |-> "", from |-> "" ]
OfflineResponse == [ kind |-> "response", ok |-> FALSE, body |-> "503", from |-> "worker" ]

NetworkResponse(reply) ==
    [ kind |-> "response", ok |-> reply.ok, body |-> reply.body, from |-> "network" ]

\* A response read from a cache, undefined if the cache had none.
CachedResponse(body) ==
    IF body = Absent THEN UndefinedResponse
    ELSE [ kind |-> "response", ok |-> TRUE, body |-> body, from |-> "cache" ]

(***************************************************************************)
(* sw.js:79-194: the fetch listener and its strategies.                    *)
(***************************************************************************)
\* Mutant of Route: requests to the translation hosts are served cache first.
Route_ApiCacheFirst(req) ==
    IF req.method # "GET" THEN "none"
    ELSE IF ~StartsWith(req.protocol, << "h", "t", "t", "p" >>) THEN "none"
    ELSE "cacheFirst"

\* Mutant of Route: only navigations are served cache first.
Route_NavigateOnly(req) ==
    IF req.method # "GET" THEN "none"
    ELSE IF ~StartsWith(req.protocol, << "h", "t", "t", "p" >>) THEN "none"
    ELSE IF req.mode = "navigate" THEN "cacheFirst" ELSE "networkFirst"

\* Mutant of Route: the method is not looked at.
Route_AnyMethod(req) ==
    IF ~StartsWith(req.protocol, << "h", "t", "t", "p" >>) THEN "none"
    ELSE IF \/ Contains(req.hostname, MINIMAX_HOST)
            \/ Contains(req.hostname, << "googleapis", ".", "com" >>)
         THEN "networkFirst"
         ELSE "cacheFirst"

\* sw.js:79-102: the strategy the fetch listener answers req with, "none"
\* when it returns without calling respondWith.
Route(req) ==
    IF req.method # "GET" THEN "none"
    ELSE IF ~StartsWith(req.protocol, << "h", "t", "t", "p" >>) THEN "none"
    ELSE IF \/ Contains(req.hostname, MINIMAX_HOST)
            \/ Contains(req.hostname, << "googleapis", ".", "com" >>)
         THEN "networkFirst"
         ELSE "cacheFirst"

\* Mutant of fetchAndCache: the response is stored whatever its status.
fetchAndCache_AnyStatus(cs, url, reply) ==
    CachePut(cs, CACHE_NAME, url, reply.body)

\* sw.js:183-190: fetchAndCache once its fetch() resolved with reply.
fetchAndCache(cs, url, reply) ==
    IF reply.ok THEN CachePut(cs, CACHE_NAME, url, reply.body) ELSE cs

\* sw.js:110-116: cacheFirst up to its first return or its fetch():
\* whether the caches held the request, the response returned if so, and
\* the URLs fetchAndCache was started for.
cacheFirstMatched(cs, req) ==
    LET cached == CachesMatch(cs, req.url)
    IN  [ hit |-> cached # Absent,
          response |-> CachedResponse(cached),
          update |-> IF cached # Absent THEN { req.url } ELSE {} ]

\* Mutant of cacheFirstFetched: the response is returned but not stored.
cacheFirstFetched_NoStore(cs, req, reply) ==
    [ caches |-> cs, response |-> NetworkResponse(reply) ]

\* sw.js:119-127: cacheFirst after its fetch() resolved with reply.
cacheFirstFetched(cs, req, reply) ==
    [ caches |-> IF reply.ok THEN CachePut(cs, CACHE_NAME, req.url, reply.body) ELSE cs,
      response |-> NetworkResponse(reply) ]

\* sw.js:128-138: cacheFirst after its fetch() rejected.
cacheFirstFailed(cs, req) ==
    IF req.mode = "navigate"
    THEN [ caches |-> CachesOpen(cs, CACHE_NAME),
           response |-> CachedResponse(CacheMatch(cs, CACHE_NAME, INDEX_URL)) ]
    ELSE [ caches |-> cs, response |-> Rejected ]

\* Mutant of networkFirstFetched: the response is stored whatever its
\* status.
networkFirstFetched_AnyStatus(cs, req, reply) ==
    [ caches |-> CachePut(cs, CACHE_NAME, req.url, reply.body),
      response |-> NetworkResponse(reply) ]

\* sw.js:147-155: networkFirst after its fetch() resolved with reply.
networkFirstFetched(cs, req, reply) ==
    [ caches |-> IF reply.ok THEN CachePut(cs, CACHE_NAME, req.url, reply.body) ELSE cs,
      response |-> NetworkResponse(reply) ]

\* Mutant of networkFirstFailed: without a cached response the failure is
\* propagated.
networkFirstFailed_Rethrows(cs, req) ==
    LET cached == CachesMatch(cs, req.url)
    IN  IF cached # Absent
        THEN [ caches |-> cs, response |-> CachedResponse(cached) ]
        ELSE [ caches |-> cs, response |-> Rejected ]

\* sw.js:156-177: networkFirst after its fetch() rejected.
networkFirstFailed(cs, req) ==
    LET cached == CachesMatch(cs, req.url)
    IN  IF cached # Absent
        THEN [ caches |-> cs, response |-> CachedResponse(cached) ]
        ELSE IF req.mode = "navigate"
        THEN [ caches |-> CachesOpen(cs, CACHE_NAME),
               response |-> CachedResponse(CacheMatch(cs, CACHE_NAME, INDEX_URL)) ]
        ELSE [ caches |-> cs, response |-> OfflineResponse ]

(***************************************************************************)
(* sw.js: the events of the worker.  Each leaves the page alone.           *)
(***************************************************************************)
lifeVars == << swState, skipWaitingFlag, precache, oldVersion, oldControlsClients >>
fetchVars == << request, strategy, fpc, result, revalidating >>

\* sw.js:34-38: the install event; caches.open(CACHE_NAME) creates the cache
\* and cache.addAll(PRECACHE_ASSETS) starts.
InstallEvent ==
    /\ swState = "parsed"
    /\ swState' = "installing"
    /\ precache' = "pending"
    /\ cacheStorage' = CachesOpen(cacheStorage, CACHE_NAME)
    /\ UNCHANGED << skipWaitingFlag, oldVersion, oldControlsClients, fetchVars, syncVars, pageVars >>

\* sw.js:39-46: addAll resolved, every asset with an ok response; the worker
\* calls skipWaiting() and the promise given to waitUntil resolves.  The
\* entries go to the cache that was opened, which a CLEAR_CACHE message may
\* have removed from the storage since.
PrecacheResolved(bodies) ==
    /\ swState = "installing"
    /\ precache \in { "pending", "detached" }
    /\ cacheStorage' = IF precache = "pending"
                       THEN CacheAddAll(cacheStorage, CACHE_NAME, PRECACHE_ASSETS, bodies)
                       ELSE cacheStorage
    /\ precache' = "ok"
    /\ skipWaitingFlag' = TRUE
    /\ swState' = "installed"
    /\ UNCHANGED << oldVersion, oldControlsClients, fetchVars, syncVars, pageVars >>

\* sw.js:41, 47-49: addAll rejected (a fetch failed or was not ok) and stored
\* nothing; the catch logs the error, so the promise given to waitUntil
\* resolves and the install succeeds.
PrecacheRejected ==
    /\ swState = "installing"
    /\ precache \in { "pending", "detached" }
    /\ precache' = "failed"
    /\ swState' = "installed"
    /\ UNCHANGED << skipWaitingFlag, oldVersion, oldControlsClients, cacheStorage,
                    fetchVars, syncVars, pageVars >>

\* The last page the previous version controlled was closed.
OldClientsClose ==
    /\ oldControlsClients
    /\ oldControlsClients' = FALSE
    /\ UNCHANGED << swState, skipWaitingFlag, precache, oldVersion, cacheStorage,
                    fetchVars, syncVars, pageVars >>

\* Mutant of ActivateEvent: no cache is deleted.
ActivateEvent_KeepsCaches ==
    /\ swState = "installed"
    /\ skipWaitingFlag \/ ~oldControlsClients
    /\ swState' = "activated"
    /\ oldControlsClients' = FALSE
    /\ UNCHANGED << skipWaitingFlag, precache, oldVersion, cacheStorage, fetchVars, syncVars, pageVars >>

\* sw.js:54-76: the activate event of an installed worker that need not wait
\* (skipWaiting() was called, or no page is controlled by the previous
\* version): every cache but CACHE_NAME is deleted, the clients are claimed.
ActivateEvent ==
    /\ swState = "installed"
    /\ skipWaitingFlag \/ ~oldControlsClients
    /\ swState' = "activated"
    /\ oldControlsClients' = FALSE
    /\ cacheStorage' = CachesDeleteAllBut(cacheStorage, { CACHE_NAME })
    /\ UNCHANGED << skipWaitingFlag, precache, oldVersion, fetchVars, syncVars, pageVars >>

\* sw.js:333-335
MessageSkipWaiting ==
    /\ swState \in { "installing", "installed", "activated" }
    /\ skipWaitingFlag' = TRUE
    /\ UNCHANGED << swState, precache, oldVersion, oldControlsClients, cacheStorage,
                    fetchVars, syncVars, pageVars >>

\* sw.js:337-344: CACHE_URLS; allOk: every URL was fetched with an ok response.
MessageCacheUrls(urls, allOk, bodies) ==
    /\ swState \in { "installing", "installed", "activated" }
    /\ cacheStorage' = IF allOk
                       THEN CacheAddAll(cacheStorage, CACHE_NAME, urls, bodies)
                       ELSE CachesOpen(cacheStorage, CACHE_NAME)
    /\ UNCHANGED << lifeVars, fetchVars, syncVars, pageVars >>

\* Mutant of MessageClearCache: the cache of the current tag is kept.
MessageClearCache_KeepsCurrent ==
    /\ swState \in { "installing", "installed", "activated" }
    /\ cacheStorage' = CachesDeleteAllBut(cacheStorage, { CACHE_NAME })
    /\ UNCHANGED << swState, skipWaitingFlag, precache, oldVersion, oldControlsClients,
                    fetchVars, syncVars, pageVars >>

\* sw.js:346-355: CLEAR_CACHE deletes every cache.
MessageClearCache ==
    /\ swState \in { "installing", "installed", "activated" }
    /\ cacheStorage' = CachesDeleteAllBut(cacheStorage, {})
    /\ precache' = IF precache = "pending" THEN "detached" ELSE precache
    /\ UNCHANGED << swState, skipWaitingFlag, oldVersion, oldControlsClients,
                    fetchVars, syncVars, pageVars >>

\* sw.js:79-116, 145-147: a fetch event reaches the active worker; the
\* listener and the strategy it calls run up to their return or their fetch().
FetchEvent(req) ==
    /\ swState = "activated"
    /\ fpc # "awaitFetch"
    /\ req.url \notin revalidating
    /\ request' = req
    /\ strategy' = Route(req)
    /\ CASE Route(req) = "none" ->
              /\ result' = Passthrough
              /\ fpc' = "done"
              /\ UNCHANGED revalidating
         [] Route(req) = "cacheFirst" ->
              LET m == cacheFirstMatched(cacheStorage, req)
              IN  /\ result' = IF m.hit THEN m.response ELSE NoResult
                  /\ fpc' = IF m.hit THEN "done" ELSE "awaitFetch"
                  /\ revalidating' = revalidating \cup m.update
         [] Route(req) = "networkFirst" ->
              /\ result' = NoResult
              /\ fpc' = "awaitFetch"
              /\ UNCHANGED revalidating
    /\ UNCHANGED << lifeVars, cacheStorage, syncVars, pageVars >>

\* sw.js:119-127, 147-155: the fetch() of the strategy resolves with reply.
NetworkResponded(reply) ==
    /\ fpc = "awaitFetch"
    /\ LET r == IF strategy = "cacheFirst"
                THEN cacheFirstFetched(cacheStorage, request, reply)
                ELSE networkFirstFetched(cacheStorage, request, reply)
       IN  /\ cacheStorage' = r.caches
           /\ result' = r.response
    /\ fpc' = "done"
    /\ UNCHANGED << lifeVars, request, strategy, revalidating, syncVars, pageVars >>

\* sw.js:128-138, 156-177: the fetch() of the strategy rejects.
NetworkFailed ==
    /\ fpc = "awaitFetch"
    /\ LET r == IF strategy = "cacheFirst"
                THEN cacheFirstFailed(cacheStorage, request)
                ELSE networkFirstFailed(cacheStorage, request)
       IN  /\ cacheStorage' = r.caches
           /\ result' = r.response
    /\ fpc' = "done"
    /\ UNCHANGED << lifeVars, request, strategy, revalidating, syncVars, pageVars >>

\* sw.js:185-190: the fetch() of a fetchAndCache resolves with reply.
BackgroundResponded(url, reply) ==
    /\ url \in revalidating
    /\ cacheStorage' = fetchAndCache(cacheStorage, url, reply)
    /\ revalidating' = revalidating \ { url }
    /\ UNCHANGED << lifeVars, request, strategy, fpc, result, syncVars, pageVars >>

\* sw.js:185, 191-193: the fetch() of a fetchAndCache rejects.
BackgroundFailed(url) ==
    /\ url \in revalidating
    /\ revalidating' = revalidating \ { url }
    /\ UNCHANGED << lifeVars, cacheStorage, request, strategy, fpc, result, syncVars, pageVars >>

\* The bodies one addAll can fetch: one version for all its URLs.
FetchedBodies == { [ u \in Urls |-> v ] : v \in Versions }

\* URL lists a page sends with CACHE_URLS.
CacheUrlsLists == { << INDEX_URL, SCRIPT_URL >> }

\* The worker alone: the page is loaded and idle.
InitSW ==
    /\ currentLangPair = "en-zh"
    /\ apiKey = <<>>
    /\ isOnline = TRUE
    /\ storedCache = MissingItem
    /\ offlineCache = loadOfflineCache(EmptyMap, storedCache)
    /\ targetText = <<>>
    /\ loading = FALSE
    /\ pc = [ c \in Slots |-> "idle" ]
    /\ text = [ c \in Slots |-> <<>> ]
    /\ sourceLang = [ c \in Slots |-> "" ]
    /\ targetLang = [ c \in Slots |-> "" ]
    /\ sent = [ c \in Slots |-> <<>> ]
    /\ lastConnectivityEvent = "none"
    /\ \E old \in BOOLEAN : SwParsed(old)

NextSW ==
    \/ InstallEvent
    \/ \E bodies \in FetchedBodies : PrecacheResolved(bodies)
    \/ PrecacheRejected
    \/ OldClientsClose
    \/ ActivateEvent
    \/ MessageSkipWaiting
    \/ \E urls \in CacheUrlsLists, allOk \in BOOLEAN, bodies \in FetchedBodies :
          MessageCacheUrls(urls, allOk, bodies)
    \/ MessageClearCache
    \/ \E req \in Requests : FetchEvent(req)
    \/ \E reply \in Replies : NetworkResponded(reply)
    \/ NetworkFailed
    \/ \E url \in Urls, reply \in Replies : BackgroundResponded(url, reply)
    \/ \E url \in Urls : BackgroundFailed(url)

\* SpecSW: one version of the worker from its install event on, with or
\* without a previous version; at most one strategy waits for the network at
\* a time, next to any number of background updates.
SpecSW == InitSW /\ [][NextSW]_vars

\* C15: precache on install is all-or-nothing: once the precache of the
\* manifest has failed, the installation has failed (the worker is neither
\* installed nor activated) and no cache named CACHE_NAME exists.
C15_FailedPrecacheFailsInstall ==
    precache = "failed"
      => /\ swState \notin { "installed", "activated" }
         /\ CACHE_NAME \notin CachesKeys(cacheStorage)

\* C16: a new version whose precache failed during installation is never
\* activated (so its activation never deletes the previous version's cache).
C16_FailedPrecacheNeverActivates ==
    (oldVersion /\ precache = "failed") => swState # "activated"

\* C17 as stated: once a version is activated, exactly one cache exists, the
\* one of the current tag, whatever fetch and message events follow.
C17_Original ==
    swState = "activated" => CachesKeys(cacheStorage) = { CACHE_NAME }

\* C17, amended: the activation of a version deletes every cache but the one
\* of the current tag and no other tag comes back afterwards, so at most one
\* cache exists once the version is active; the cache of the current tag
\* exists from the install event on until a CLEAR_CACHE message deletes it.
C17_ActivationKeepsOnlyCurrent ==
    /\ [](swState = "activated" => CachesKeys(cacheStorage) \subseteq { CACHE_NAME })
    /\ [][ (swState = "installed" /\ swState' = "activated")
             => CachesKeys(cacheStorage') = CachesKeys(cacheStorage) \cap { CACHE_NAME } ]_vars
    /\ [][ (swState = "parsed" /\ swState' = "installing")
             => CACHE_NAME \in CachesKeys(cacheStorage') ]_vars
    /\ [][ (CACHE_NAME \in CachesKeys(cacheStorage) /\ ~MessageClearCache)
             => CACHE_NAME \in CachesKeys(cacheStorage') ]_vars

\* A version with a precached manifest was activated over a previous version,
\* whose cache is gone.
C17_Witness ==
    /\ oldVersion
    /\ swState = "activated"
    /\ precache = "ok"
    /\ cacheStorage[OLD_CACHE_NAME] = NoCache
    /\ CacheMatch(cacheStorage, CACHE_NAME, INDEX_URL) \in Versions

\* C18: cacheFirst on a request the caches hold answers the event in the
\* step of the lookup, with the cached entry and before any network reply,
\* starts one fetchAndCache for the request and leaves the caches as they
\* are; on a request the caches do not hold it starts no fetchAndCache.  A
\* fetchAndCache that ends with an ok response puts it into the cache of
\* CACHE_NAME; one that ends with another response or with a failure changes
\* no cache.
C18_HitServesAndRevalidates ==
    [][ /\ \A req \in Requests :
              (FetchEvent(req) /\ Route(req) = "cacheFirst")
                => IF CachesMatch(cacheStorage, req.url) # Absent
                   THEN /\ result' = CachedResponse(CachesMatch(cacheStorage, req.url))
                        /\ fpc' = "done"
                        /\ revalidating' = revalidating \cup { req.url }
                        /\ cacheStorage' = cacheStorage
                   ELSE /\ revalidating' = revalidating
                        /\ fpc' = "awaitFetch"
        /\ \A url \in Urls, reply \in Replies :
              BackgroundResponded(url, reply)
                => IF reply.ok
                   THEN cacheStorage' = CachePut(cacheStorage, CACHE_NAME, url, reply.body)
                   ELSE cacheStorage' = cacheStorage
        /\ \A url \in Urls :
              BackgroundFailed(url) => cacheStorage' = cacheStorage ]_vars

\* A hit was answered with the old entry, and its background fetch has
\* replaced the entry since.
C18_Witness ==
    /\ fpc = "done"
    /\ strategy = "cacheFirst"
    /\ result = CachedResponse("v1")
    /\ request.url \notin revalidating
    /\ CacheMatch(cacheStorage, CACHE_NAME, request.url) = "v2"

\* C19: cacheFirst on a request the caches do not hold waits for the
\* network.  An ok response is returned and is, after that step, the entry of
\* the request in the cache of CACHE_NAME.  If the fetch fails, a navigation
\* request is answered with what the cache of CACHE_NAME holds for
\* './index.html', and for any other request the failure is propagated.
C19_MissFetchesAndFallsBack ==
    [][ /\ \A req \in Requests :
              ( /\ FetchEvent(req)
                /\ Route(req) = "cacheFirst"
                /\ CachesMatch(cacheStorage, req.url) = Absent )
                => /\ fpc' = "awaitFetch"
                   /\ result' = NoResult
        /\ \A reply \in Replies :
              (NetworkResponded(reply) /\ strategy = "cacheFirst" /\ reply.ok)
                => /\ result' = NetworkResponse(reply)
                   /\ CacheMatch(cacheStorage', CACHE_NAME, request.url) = reply.body
        /\ (NetworkFailed /\ strategy = "cacheFirst")
              => IF request.mode = "navigate"
                 THEN result' = CachedResponse(CacheMatch(cacheStorage, CACHE_NAME, INDEX_URL))
                 ELSE result' = Rejected ]_vars

\* A navigation to a URL no cache held failed on the network and was
\* answered with the cached './index.html'.
C19_Witness ==
    /\ fpc = "done"
    /\ strategy = "cacheFirst"
    /\ request.mode = "navigate"
    /\ CachesMatch(cacheStorage, request.url) = Absent
    /\ result = CachedResponse(CacheMatch(cacheStorage, CACHE_NAME, INDEX_URL))
    /\ result.kind = "response"

\* C20: a fetch event whose request is not a GET, or whose URL's scheme does
\* not start with http, is not answered by the worker: the listener calls
\* neither cacheFirst nor networkFirst, starts no fetch and changes no cache.
C20_NoInterception ==
    [][ \A req \in Requests :
          ( /\ FetchEvent(req)
            /\ \/ req.method # "GET"
               \/ ~StartsWith(req.protocol, << "h", "t", "t", "p" >>) )
            => /\ strategy' = "none"
               /\ result' = Passthrough
               /\ fpc' = "done"
               /\ cacheStorage' = cacheStorage
               /\ revalidating' = revalidating ]_vars

\* The translation request of the page, a POST, went past a worker whose
\* cache holds the precached assets.
C20_Witness ==
    /\ request.method = "POST"
    /\ request.url = MINIMAX_URL
    /\ strategy = "none"
    /\ result = Passthrough
    /\ CacheMatch(cacheStorage, CACHE_NAME, SCRIPT_URL) \in Versions

(***************************************************************************)
(* sw.js:197-266: background sync.                                         *)
(***************************************************************************)
\* sw.js:254-258: the pending translations syncTranslations works on.
getPendingTranslations == <<>>

\* sw.js:263-266: removePendingTranslation(id) on a list of pending
\* translations: the body is empty, the list stays as it is.
removePendingTranslation(pending, id) == pending

\* sw.js:215-226: the request of one pending translation.
SyncRequest(item) ==
    [ provider |-> "primary", method |-> "POST", authorization |-> item.apiKey,
      source |-> item.sourceLang, target |-> item.targetLang, text |-> item.text ]

\* sw.js:235-239
TranslationSynced(item) ==
    [ type |-> "TRANSLATION_SYNCED", originalText |-> item.text, id |-> item.id ]

\* sw.js:208-249: syncTranslations on the list pending, outcome[id] being how
\* the fetch() of that item ends ("ok", "notOk" or "rejected"): the requests
\* sent, the list left and the messages posted, in order.
RECURSIVE syncTranslations(_, _)
syncTranslations(pending, outcome) ==
    IF pending = <<>>
    THEN [ requests |-> <<>>, left |-> <<>>, posted |-> <<>> ]
    ELSE LET item == Head(pending)
             rest == syncTranslations(Tail(pending), outcome)
             ok   == outcome[item.id] = "ok"
         IN  [ requests |-> << SyncRequest(item) >> \o rest.requests,
               left |-> IF ok
                        THEN removePendingTranslation(<< item >>, item.id) \o rest.left
                        ELSE << item >> \o rest.left,
               posted |-> IF ok THEN << TranslationSynced(item) >> \o rest.posted
                                ELSE rest.posted ]

\* Tags a sync event can carry, and the ways the calls of one drain can end.
SyncTags == { "sync-translations", "periodic-update" }
PendingIds == { "t1" }
SyncOutcomes == [ PendingIds -> { "ok", "notOk", "rejected" } ]

\* sw.js:197-203: a sync event reaches the active worker.
SyncEvent(tag, outcome) ==
    /\ swState = "activated"
    /\ lastSyncTag' = tag
    /\ IF tag = "sync-translations"
       THEN LET drained == syncTranslations(getPendingTranslations, outcome)
            IN  /\ syncRequests' = syncRequests \o drained.requests
                /\ notices' = notices \o drained.posted
       ELSE UNCHANGED << syncRequests, notices >>
    /\ UNCHANGED << lifeVars, cacheStorage, fetchVars, pageVars >>

\* The page with its worker's background sync: the worker installs and is
\* activated, sync events reach it, and translations start and fail.
InitSync ==
    /\ currentLangPair \in LangPairs
    /\ apiKey \in ApiKeys
    /\ isOnline \in BOOLEAN
    /\ storedCache = MissingItem
    /\ offlineCache = loadOfflineCache(EmptyMap, storedCache)
    /\ targetText = <<>>
    /\ loading = FALSE
    /\ pc = [ c \in Slots |-> "idle" ]
    /\ text = [ c \in Slots |-> <<>> ]
    /\ sourceLang = [ c \in Slots |-> "" ]
    /\ targetLang = [ c \in Slots |-> "" ]
    /\ sent = [ c \in Slots |-> <<>> ]
    /\ lastConnectivityEvent = "none"
    /\ SwParsed(FALSE)

NextSync ==
    \/ \E c \in Calls, t \in InputTexts : Translate(c, t)
    \/ \E c \in Calls : PrimaryRejected(c)
    \/ \E c \in Calls : SecondaryRejected(c)
    \/ OnlineEvent
    \/ OfflineEvent
    \/ InstallEvent
    \/ \E bodies \in FetchedBodies : PrecacheResolved(bodies)
    \/ ActivateEvent
    \/ \E tag \in SyncTags, outcome \in SyncOutcomes : SyncEvent(tag, outcome)

\* SpecSync: translations that end offline, without credential or with an
\* error, next to the sync events of the worker.
SpecSync == InitSync /\ [][NextSync]_vars

(***************************************************************************)
(* Two translateText calls of one page, and calls under fair providers.    *)
(***************************************************************************)
\* The first translateText call of the page, in slot c1.
TranslateOlder(t) ==
    /\ pc["c1"] = "idle"
    /\ Translate("c1", t)

\* A second call, in slot c2, made once the first one has been made: while
\* it is suspended or after it has ended.
TranslateNewer(t) ==
    /\ pc["c1"] # "idle"
    /\ pc["c2"] = "idle"
    /\ Translate("c2", t)

\* A page online with a credential, on an empty or a one-entry stored cache.
InitConc ==
    /\ currentLangPair \in LangPairs
    /\ apiKey = <<"k">>
    /\ isOnline = TRUE
    /\ storedCache \in { MissingItem, JSONstringify(SubSeq(SampleEntries, 1, 1)) }
    /\ offlineCache = loadOfflineCache(EmptyMap, storedCache)
    /\ targetText = <<>>
    /\ loading = FALSE
    /\ pc = [ c \in Slots |-> "idle" ]
    /\ text = [ c \in Slots |-> <<>> ]
    /\ sourceLang = [ c \in Slots |-> "" ]
    /\ targetLang = [ c \in Slots |-> "" ]
    /\ sent = [ c \in Slots |-> <<>> ]
    /\ lastConnectivityEvent = "none"
    /\ SwParsed(FALSE)

NextConc ==
    \/ \E t \in InputTexts : TranslateOlder(t)
    \/ \E t \in InputTexts : TranslateNewer(t)
    \/ \E c \in Slots : PrimaryRejected(c)
    \/ \E c \in Slots, ok \in BOOLEAN : PrimaryResponded(c, ok)
    \/ \E c \in Slots : PrimaryErrorRead(c)
    \/ \E c \in Slots, data \in PrimaryBodies : PrimaryBodyRead(c, data, TRUE)
    \/ \E c \in Slots : SecondaryRejected(c)
    \/ \E c \in Slots, ok \in BOOLEAN : SecondaryResponded(c, ok)
    \/ \E c \in Slots, data \in SecondaryBodies : SecondaryBodyRead(c, data, TRUE)

\* SpecConc: two overlapping translateText calls, the one in slot c1 made
\* first; localStorage.setItem succeeds.
SpecConc == InitConc /\ [][NextConc]_vars

\* A provider call of the invocation in slot c returns or fails, or a body
\* it waits for is read.
ProviderSettles(c) ==
    \/ PrimaryRejected(c)
    \/ \E ok \in BOOLEAN : PrimaryResponded(c, ok)
    \/ PrimaryErrorRead(c)
    \/ \E data \in PrimaryBodies : PrimaryBodyRead(c, data, TRUE)
    \/ SecondaryRejected(c)
    \/ \E ok \in BOOLEAN : SecondaryResponded(c, ok)
    \/ \E data \in SecondaryBodies : SecondaryBodyRead(c, data, TRUE)

\* SpecLive: Spec with providers whose calls eventually return or fail.
SpecLive == Init /\ [][Next]_vars /\ \A c \in Calls : WF_vars(ProviderSettles(c))

\* setLanguagePair while the first call has been made and the source panel
\* holds t: the re-translation is the second call, in slot c2.
RetranslateNewer(lp, t) ==
    /\ pc["c1"] # "idle"
    /\ pc["c2"] = "idle"
    /\ SetLanguagePairRetranslate(lp, "c2", t)

NextPair ==
    \/ NextConc
    \/ \E lp \in LangPairs : SetLanguagePair(lp)
    \/ \E lp \in LangPairs, t \in InputTexts : RetranslateNewer(lp, t)

\* SpecPair: SpecConc with the language buttons: the selected pair changes
\* while calls are in flight, with or without a re-translation.
SpecPair == InitConc /\ [][NextPair]_vars

\* A page online with a credential, on any item of InitialItems.
InitStore ==
    /\ currentLangPair \in LangPairs
    /\ apiKey = <<"k">>
    /\ isOnline = TRUE
    /\ storedCache \in InitialItems
    /\ offlineCache = loadOfflineCache(EmptyMap, storedCache)
    /\ targetText = <<>>
    /\ loading = FALSE
    /\ pc = [ c \in Slots |-> "idle" ]
    /\ text = [ c \in Slots |-> <<>> ]
    /\ sourceLang = [ c \in Slots |-> "" ]
    /\ targetLang = [ c \in Slots |-> "" ]
    /\ sent = [ c \in Slots |-> <<>> ]
    /\ lastConnectivityEvent = "none"
    /\ SwParsed(FALSE)

NextStore ==
    \/ \E c \in Calls, t \in InputTexts : Translate(c, t)
    \/ \E c \in Calls : PrimaryRejected(c)
    \/ \E c \in Calls, ok \in BOOLEAN : PrimaryResponded(c, ok)
    \/ \E c \in Calls : PrimaryErrorRead(c)
    \/ \E c \in Calls, data \in PrimaryBodies, setItemOk \in BOOLEAN :
          PrimaryBodyRead(c, data, setItemOk)
    \/ \E c \in Calls : SecondaryRejected(c)
    \/ \E c \in Calls, ok \in BOOLEAN : SecondaryResponded(c, ok)
    \/ \E c \in Calls, data \in SecondaryBodies, setItemOk \in BOOLEAN :
          SecondaryBodyRead(c, data, setItemOk)
    \/ clearOfflineCache
    \/ Reload

\* SpecStore: one call at a time on a localStorage whose setItem may throw
\* (quota exceeded) at any write.
SpecStore == InitStore /\ [][NextStore]_vars

\* The host is one the fetch listener treats as a translation API's.
IsApiHost(hostname) ==
    \/ Contains(hostname, MINIMAX_HOST)
    \/ Contains(hostname, << "googleapis", ".", "com" >>)

\* C21 as stated: every request to a translation host that reaches the fetch
\* listener is answered by networkFirst, the request translateText sends to
\* the primary provider included.
C21_Original ==
    [][ \A req \in Requests :
          (FetchEvent(req) /\ IsApiHost(req.hostname)) => strategy' = "networkFirst" ]_vars

\* C21, amended: a GET http(s) request to a translation host is answered by
\* networkFirst, which is what happens to the secondary request of the page;
\* the primary request of the page, a POST, is not answered by the worker.
C21_ApiGetIsNetworkFirst ==
    [][ \A req \in Requests :
          FetchEvent(req)
            => /\ ( /\ IsApiHost(req.hostname)
                    /\ req.method = "GET"
                    /\ StartsWith(req.protocol, << "h", "t", "t", "p" >>) )
                    => (strategy' = "networkFirst" /\ fpc' = "awaitFetch")
               /\ req = FetchRequestOf(SecondaryRequest("zh", "en", <<"a">>))
                    => strategy' = "networkFirst"
               /\ req = FetchRequestOf(PrimaryRequest(<<"k">>, "zh", "en", <<"a">>))
                    => (strategy' = "none" /\ result' = Passthrough) ]_vars

\* The secondary request of the page was answered by networkFirst from the
\* network.
C21_Witness ==
    /\ request = FetchRequestOf(SecondaryRequest("zh", "en", <<"a">>))
    /\ strategy = "networkFirst"
    /\ fpc = "done"
    /\ result = NetworkResponse([ ok |-> TRUE, body |-> "v1" ])

\* The disposition the rules give a request of that method, scheme and host.
Disposition(method, protocol, hostname) ==
    IF method # "GET" \/ ~StartsWith(protocol, << "h", "t", "t", "p" >>) THEN "none"
    ELSE IF IsApiHost(hostname) THEN "networkFirst"
    ELSE "cacheFirst"

NoEntries(cs) == \A req \in Requests : CachesMatch(cs, req.url) = Absent

\* An entry is stored by the install event's precache or on behalf of a
\* later request or message: a strategy's own fetch() resolves, or a
\* CACHE_URLS message is processed.
StoredOnDemand ==
    \/ \E bodies \in FetchedBodies : PrecacheResolved(bodies)
    \/ \E reply \in Replies : NetworkResponded(reply)
    \/ \E urls \in CacheUrlsLists, allOk \in BOOLEAN, bodies \in FetchedBodies :
          MessageCacheUrls(urls, allOk, bodies)

\* C23 as stated: a CLEAR_CACHE message leaves no cache, and from then on
\* the caches hold nothing until a later request has gone to the network (or
\* a CACHE_URLS message has stored its URLs), so that the next request for a
\* URL cached before the message is a miss.
C23_Original ==
    [][ /\ MessageClearCache => (CachesKeys(cacheStorage') = {} /\ NoEntries(cacheStorage'))
        /\ (NoEntries(cacheStorage) /\ ~StoredOnDemand) => NoEntries(cacheStorage') ]_vars

\* C23, amended: when a CLEAR_CACHE message has been processed no cache is
\* left, and a request served by cacheFirst while no cache holds it waits
\* for the network; but a fetchAndCache that was in flight when the message
\* was processed stores its response afterwards, so a URL cached before the
\* message can be a hit again although no later request has fetched it.
\* Entries come back in no other way.
C23_ClearThenMiss ==
    [][ /\ MessageClearCache => (CachesKeys(cacheStorage') = {} /\ NoEntries(cacheStorage'))
        /\ \A req \in Requests :
              ( /\ FetchEvent(req)
                /\ Route(req) = "cacheFirst"
                /\ CachesMatch(cacheStorage, req.url) = Absent
                /\ CachesKeys(cacheStorage) = {} )
                => /\ fpc' = "awaitFetch"
                   /\ result' = NoResult
                   /\ revalidating' = revalidating
        /\ (NoEntries(cacheStorage) /\ ~NoEntries(cacheStorage'))
              => \/ StoredOnDemand
                 \/ \E url \in revalidating, reply \in Replies :
                       reply.ok /\ BackgroundResponded(url, reply) ]_vars

\* The script was precached, the caches were cleared, and the next request
\* for the script waits for the network.
C23_Witness ==
    /\ precache = "ok"
    /\ CachesKeys(cacheStorage) = {}
    /\ request.url = SCRIPT_URL
    /\ strategy = "cacheFirst"
    /\ fpc = "awaitFetch"
    /\ revalidating = {}

\* C30: networkFirst returns the response of the network as it is and puts
\* it into the cache of CACHE_NAME only if it is ok.  When the network call
\* fails it returns the cached response of the request if a cache holds
\* one, else, for a navigation, what the cache of CACHE_NAME holds for
\* './index.html', else the 503 response; for a request that is no
\* navigation it therefore always resolves with a response.
C30_NetworkFirstAlwaysResponds ==
    [][ /\ \A reply \in Replies :
              (NetworkResponded(reply) /\ strategy = "networkFirst")
                => /\ result' = NetworkResponse(reply)
                   /\ cacheStorage' = IF reply.ok
                                      THEN CachePut(cacheStorage, CACHE_NAME,
                                                    request.url, reply.body)
                                      ELSE cacheStorage
        /\ (NetworkFailed /\ strategy = "networkFirst")
              => /\ result' =
                      IF CachesMatch(cacheStorage, request.url) # Absent
                      THEN CachedResponse(CachesMatch(cacheStorage, request.url))
                      ELSE IF request.mode = "navigate"
                      THEN CachedResponse(CacheMatch(cacheStorage, CACHE_NAME, INDEX_URL))
                      ELSE OfflineResponse
                 /\ request.mode # "navigate" => result'.kind = "response" ]_vars

\* The secondary request failed on the network with nothing cached for it
\* and was answered with the 503 response.
C30_Witness ==
    /\ strategy = "networkFirst"
    /\ fpc = "done"
    /\ result = OfflineResponse
    /\ CachesMatch(cacheStorage, request.url) = Absent

\* C27: once a translateText call has ended with the offline message, a
\* pending item with its text is among the pending translations that
\* syncTranslations works on.
C27_OfflineFailureIsQueued ==
    \A c \in Calls :
        pc[c] = "offline"
          => \E i \in 1..Len(getPendingTranslations) :
                getPendingTranslations[i].text = text[c]

\* C28: when a 'sync-translations' event reaches the worker after a
\* translation has ended with the offline message, syncTranslations sends the
\* primary request of that translation.
C28_DrainAttemptsQueuedItems ==
    [][ \A c \in Calls, outcome \in SyncOutcomes :
          (pc[c] = "offline" /\ SyncEvent("sync-translations", outcome))
            => \E i \in 1..Len(syncRequests') :
                  /\ i > Len(syncRequests)
                  /\ syncRequests'[i].text = text[c] ]_vars

\* The language a language code of CONFIG.SPEECH_LANGUAGES or of a request
\* stands for.
LanguageOf(code) == IF code \in { "zh-CN", "zh" } THEN "zh" ELSE "en"

\* C29: a translateText call under the selected pair uses, in its requests
\* and in its cache key, the language of the pair's source as the source
\* language and the language of the pair's target as the target language.
C29_PairDirection ==
    [][ \A c \in Calls, t \in InputTexts :
          Translate(c, t)
            => /\ LanguageOf(sourceLang'[c]) = LanguageOf(SPEECH_LANGUAGES[currentLangPair].source)
               /\ LanguageOf(targetLang'[c]) = LanguageOf(SPEECH_LANGUAGES[currentLangPair].target) ]_vars

\* The step ends the invocation in slot c with a success.
Succeeds(c) ==
    /\ pc[c] \in Suspended
    /\ pc'[c] \in { "primaryOk", "secondaryOk" }

C25_NoCancellationLastWins ==
    [][ \A c \in Slots, d \in Slots :
          c # d
            => /\ (\E t \in InputTexts : TranslateText(c, t, currentLangPair))
                    => /\ pc'[d] = pc[d]
                       /\ sent'[d] = sent[d]
                       /\ text'[d] = text[d]
               /\ (pc[c] \in Suspended /\ pc'[c] # pc[c])
                    => /\ pc'[d] = pc[d]
                       /\ pc'[c] \in { "primaryOk", "secondaryOk" }
                            => targetText' = MapGet(offlineCache', KeyOf(c))
                       /\ pc'[c] = "error" => targetText' = TerminalError(text[c]) ]_vars

\* The newer invocation has succeeded on the primary provider; the older
\* one succeeded after it, on the secondary provider, and its translation of
\* the older text is what is shown.
C25_Witness ==
    /\ pc["c2"] = "primaryOk"
    /\ pc["c1"] = "secondaryOk"
    /\ text["c1"] # text["c2"]
    /\ targetText = <<"x", "y">>
    /\ MapGet(offlineCache, KeyOf("c2")) = <<"x">>

\* The positions an invocation can move to from position p in one step.
NextPositions(p) ==
    CASE p = "awaitPrimary"       -> { "awaitPrimaryText", "awaitPrimaryJson", "awaitSecondary" }
      [] p = "awaitPrimaryText"   -> { "awaitSecondary" }
      [] p = "awaitPrimaryJson"   -> { "primaryOk", "awaitSecondary" }
      [] p = "awaitSecondary"     -> { "awaitSecondaryJson", "error" }
      [] p = "awaitSecondaryJson" -> { "secondaryOk", "error" }
      [] OTHER                    -> { "cached", "offline", "noKey", "awaitPrimary" }

\* C26: an invocation moves through its steps in order: it ends at the cache
\* lookup, the offline check or the credential check, or calls the primary
\* provider; the secondary call starts only from a primary call that has
\* ended without success, and the terminal error only from the secondary
\* call; an outcome, once reached, stays until the next call.  With providers
\* whose calls eventually return or fail, an invocation that is suspended
\* eventually is not: it has ended in one of the six outcomes (or the page
\* was loaded again).
C26_SequenceAndTermination ==
    /\ [][ \A c \in Calls :
             pc'[c] # pc[c]
               => \/ pc'[c] \in NextPositions(pc[c])
                  \/ (pc'[c] = "idle" /\ Reload) ]_vars
    /\ [][ \A c \in Calls :
             (pc'[c] = "awaitSecondary" /\ pc[c] # "awaitSecondary")
               => /\ pc[c] \in { "awaitPrimary", "awaitPrimaryText", "awaitPrimaryJson" }
                  /\ Len(sent[c]) = 1
                  /\ Len(sent'[c]) = 2 ]_vars
    /\ \A c \in Calls : (pc[c] \in Suspended) ~> (pc[c] \in Ended \cup { "idle" })

\* An invocation went through every step and ended with the translation of
\* the secondary provider.
C26_Witness ==
    \E c \in Calls :
        /\ pc[c] = "secondaryOk"
        /\ Len(sent[c]) = 2
        /\ sent[c][1].provider = "primary"
        /\ sent[c][2].provider = "secondary"
        /\ loading = FALSE
        /\ targetText = <<"x", "y">>

\* C31: an entry written by translateText is stored under the key of the
\* call that obtained it.  The call looks up the key made of its own
\* sourceLang, targetLang and text; that key stays the same while the call
\* is suspended, whatever pair is selected meanwhile and whatever other
\* calls do; and the step that ends the call in primary or secondary
\* success writes under that key and under no other.
C31_WrittenKeyIsLookedUpKey ==
    [][ \A c \in Slots :
          /\ \A t \in InputTexts, lp \in LangPairs :
                TranslateText(c, t, lp)
                  => /\ KeyOf(c)' = LookupKey(lp, t)
                     /\ (pc'[c] = "cached") = MapHas(offlineCache, LookupKey(lp, t))
          /\ pc[c] \in Suspended => KeyOf(c)' = KeyOf(c)
          /\ Succeeds(c)
                => /\ MapHas(offlineCache', KeyOf(c))
                   /\ \A i \in 1..Len(offlineCache') :
                         offlineCache'[i][1] # KeyOf(c)
                           => MapHas(offlineCache, offlineCache'[i][1]) ]_vars

\* A call succeeded after the other pair had been selected and the
\* re-translation had already ended: its entry is under the key of its own
\* pair, which is not the key of its text under the pair now selected.
C31_Witness ==
    /\ pc["c1"] \in { "primaryOk", "secondaryOk" }
    /\ pc["c2"] \in { "primaryOk", "secondaryOk" }
    /\ text["c1"] = text["c2"]
    /\ KeyOf("c1") # LookupKey(currentLangPair, text["c1"])
    /\ KeyOf("c2") = LookupKey(currentLangPair, text["c2"])
    /\ MapHas(offlineCache, KeyOf("c1"))
    /\ targetText = MapGet(offlineCache, KeyOf("c1"))
    /\ MapGet(offlineCache, KeyOf("c1")) # MapGet(offlineCache, KeyOf("c2"))

\* The entry list the stored item holds: none when there is no item or the
\* item cannot be read.
PersistedEntries(item) == IF item.kind = "array" THEN item.items ELSE <<>>

\* The stored entry list is the ordered entry list of the Map in memory.
PersistedIsMemory == PersistedEntries(storedCache) = MapEntries(offlineCache)

\* The step ends an invocation in success and its setItem throws.
SuccessNotWritten ==
    \E c \in Calls :
        /\ Succeeds(c)
        /\ \/ \E data \in PrimaryBodies : PrimaryBodyRead(c, data, FALSE)
           \/ \E data \in SecondaryBodies : SecondaryBodyRead(c, data, FALSE)

\* The step ends an invocation in success and its setItem returns.
SuccessWritten ==
    \E c \in Calls :
        /\ Succeeds(c)
        /\ \/ \E data \in PrimaryBodies : PrimaryBodyRead(c, data, TRUE)
           \/ \E data \in SecondaryBodies : SecondaryBodyRead(c, data, TRUE)

\* C32: the stored entry list equals the ordered entry list of the cache in
\* memory when the page has started, and after every restore, every clear
\* and every successful translation whose write succeeded; the two stay
\* equal over every step that is not a write that fails.
C32_PersistedEqualsMemory ==
    /\ PersistedIsMemory
    /\ [][ (Reload \/ clearOfflineCache \/ SuccessWritten)
             => PersistedIsMemory' ]_vars
    /\ [][ (PersistedIsMemory /\ ~SuccessNotWritten)
             => PersistedIsMemory' ]_vars

\* A translation was inserted into an empty cache and persisted: the stored
\* list is the one entry in memory, which no stored item the page starts on
\* holds alone.
C32_Witness ==
    \E c \in Calls :
        /\ pc[c] \in { "primaryOk", "secondaryOk" }
        /\ KeyOf(c) # SampleEntries[1][1]
        /\ offlineCache = << << KeyOf(c), targetText >> >>
        /\ storedCache.kind = "array"
        /\ PersistedIsMemory

\* Bodies of the responses with an ok status: the ok replies of the network
\* and what the previous version cached.
OkBodies == { reply.body : reply \in { r \in Replies : r.ok } } \cup { OldVersionBody }

\* The fetch() of a strategy or of a background update rejects, or resolves
\* with a response whose status is not ok.
FetchWithoutOk ==
    \/ NetworkFailed
    \/ \E url \in Urls : BackgroundFailed(url)
    \/ \E reply \in Replies :
          /\ ~reply.ok
          /\ \/ NetworkResponded(reply)
             \/ \E url \in Urls : BackgroundResponded(url, reply)

\* C33: every entry of every cache is a response that had an ok status when
\* it was stored, and a step of cacheFirst, networkFirst or fetchAndCache
\* whose fetch failed or returned a status that is not ok leaves every entry
\* of every cache as it was.
C33_OnlyOkResponsesStored ==
    /\ [](\A n \in DOMAIN cacheStorage, u \in Urls :
            CacheMatch(cacheStorage, n, u) \in OkBodies \cup { Absent })
    /\ [][ FetchWithoutOk
             => \A n \in DOMAIN cacheStorage, u \in Urls :
                  CacheMatch(cacheStorage', n, u) = CacheMatch(cacheStorage, n, u) ]_vars

\* networkFirst returned the 404 of the network for a translation request;
\* the cache holds the precached assets and nothing for that request.
C33_Witness ==
    /\ strategy = "networkFirst"
    /\ fpc = "done"
    /\ result.kind = "response"
    /\ result.from = "network"
    /\ ~result.ok
    /\ CacheMatch(cacheStorage, CACHE_NAME, request.url) = Absent
    /\ CacheMatch(cacheStorage, CACHE_NAME, INDEX_URL) \in Versions

=============================================================================
